---------------------------- MODULE Spec2Model ----------------------------
(***************************************************************************)
(* A model of ggputils: the GGP player HTTP handler (ggp_http_handler.py)  *)
(* and the s-expression utilities it rests on (utils.py).                  *)
(*                                                                         *)
(* Text is a sequence of symbols.  A symbol is "(", ")", " " (a run of     *)
(* whitespace), "^" (a caret, which the tokenizer's character class        *)
(* excludes) or an atom: a maximal run of other characters, kept as one    *)
(* string.  Python's None is the string None.                              *)
(***************************************************************************)
EXTENDS Integers, Sequences, FiniteSets, TLC

None == "None"

\* ------------------------------------------------------------------------
\* utils.py: s-expressions
\* ------------------------------------------------------------------------

\* An s-expression value: a str (atom) or a list of values.
Atom(a) == [t |-> "atom", a |-> a, kids |-> <<>>]
List(ks) == [t |-> "list", a |-> "", kids |-> ks]

\* The outcome of a call that may raise: a value, or the exception's type.
Ok(v) == [ok |-> TRUE, val |-> v, err |-> ""]
Raise(e, v) == [ok |-> FALSE, val |-> v, err |-> e]

\* re.match(r'^\s*$', sexp)
IsBlank(text) == \A i \in 1..Len(text) : text[i] = " "

\* re.finditer(_term_regex, sexp): the terms in order; whitespace separates
\* them and a character no alternative matches ("^") is skipped.
Terms(text) == SelectSeq(text, LAMBDA s : s \notin {" ", "^"})

RECURSIVE ParseTerms(_, _, _)
ParseTerms(terms, stack, out) ==
    IF terms = <<>>
    THEN IF stack # <<>> THEN Raise("ValueError", Atom(""))
         ELSE IF out = <<>> THEN Raise("IndexError", Atom(""))
         ELSE Ok(out[1])
    ELSE LET term == Head(terms) IN
         IF term = "("
         THEN ParseTerms(Tail(terms), Append(stack, out), <<>>)
         ELSE IF term = ")"
         THEN IF stack = <<>> THEN Raise("ValueError", Atom(""))
              ELSE ParseTerms(Tail(terms),
                              SubSeq(stack, 1, Len(stack) - 1),
                              Append(stack[Len(stack)], List(out)))
         ELSE ParseTerms(Tail(terms), stack, Append(out, Atom(term)))

parse_simple_sexp(sexp) ==
    IF IsBlank(sexp) THEN Raise("ValueError", Atom(""))
    ELSE ParseTerms(Terms(sexp), <<>>, <<>>)

\* re.search(r'[\s()]', exp): the atoms that hold whitespace or a bracket.
BadAtoms == {"a b", "a(b", "a)"}
HasBadChar(a) == a \in BadAtoms

RECURSIVE JoinTexts(_, _)
JoinTexts(texts, sep) ==
    IF texts = <<>> THEN <<>>
    ELSE IF Len(texts) = 1 THEN texts[1]
    ELSE texts[1] \o sep \o JoinTexts(Tail(texts), sep)

\* '{0}'.format(exp): the text of an atom; a caret inside it is a symbol of
\* its own
AtomText(a) == IF a = "a^b" THEN <<"a", "^", "b">> ELSE <<a>>

\* A rendering that does not look inside the atoms: the variant C29 is tested
\* against.
RECURSIVE exp_to_sexp_unchecked(_)
exp_to_sexp_unchecked(exp) ==
    IF exp.t = "list"
    THEN Ok(<<"(">> \o JoinTexts([i \in 1..Len(exp.kids) |->
                                    exp_to_sexp_unchecked(exp.kids[i]).val], <<" ">>)
            \o <<")">>)
    ELSE Ok(AtomText(exp.a))

\* exp_to_sexp
RECURSIVE exp_to_sexp(_)
exp_to_sexp(exp) ==
    IF exp.t = "list"
    THEN LET parts == [i \in 1..Len(exp.kids) |-> exp_to_sexp(exp.kids[i])] IN
         IF \E i \in 1..Len(exp.kids) : ~parts[i].ok
         THEN Raise("ValueError", <<>>)
         ELSE Ok(<<"(">> \o JoinTexts([i \in 1..Len(exp.kids) |-> parts[i].val], <<" ">>)
                 \o <<")">>)
    ELSE IF HasBadChar(exp.a) THEN Raise("ValueError", <<>>)
    ELSE Ok(AtomText(exp.a))

\* re.match(r'^NIL$', exp, re.IGNORECASE)
IsNil(a) == a \in {"NIL", "nil", "Nil"}

\* The list of the texts of exps, or the first failure.
SexpEach(exps) ==
    LET parts == [i \in 1..Len(exps) |-> exp_to_sexp(exps[i])] IN
    IF \E i \in 1..Len(exps) : ~parts[i].ok
    THEN Raise("ValueError", <<>>)
    ELSE Ok([i \in 1..Len(exps) |-> parts[i].val])

parse_actions_sexp(sexp) ==
    LET p == parse_simple_sexp(sexp) IN
    IF ~p.ok THEN Raise(p.err, <<>>)
    ELSE IF p.val.t = "atom"
    THEN IF IsNil(p.val.a) THEN Ok(<<>>)
         ELSE LET one == exp_to_sexp(p.val) IN
              IF one.ok THEN Ok(<<one.val>>) ELSE Raise(one.err, <<>>)
    ELSE SexpEach(p.val.kids)


\* ------------------------------------------------------------------------
\* ggp_http_handler.py: messages
\*
\* A request is read through the handler's regular expressions only, so it
\* is kept as what they can see of it:
\*   method, short  REQUEST_METHOD, and CONTENT_LENGTH <= 5
\*   kind     the first SEARCH_* prefix the body matches, else OTHER
\*   kcase    the keyword as written: UPPER, LOWER or MIXED
\*   wf       the kind's MATCH_* expression matches the whole body
\*   id       the match id that MATCH_PLAY/STOP/ABORT/START or
\*            MATCH_SPS_MATCHID capture ("" when none matches)
\*   role, gdl, sclock, pclock   the other groups of MATCH_START;
\*            PREVIEW: gdl and sclock = the preview clock
\*   payload  group 2 of MATCH_PLAY / MATCH_STOP
\* ------------------------------------------------------------------------
NoClock == -1

Msg(kind, kcase, wf, id, role, gdl, sclock, pclock, payload) ==
    [method |-> "POST", short |-> FALSE, kind |-> kind, kcase |-> kcase,
     wf |-> wf, id |-> id, role |-> role, gdl |-> gdl, sclock |-> sclock,
     pclock |-> pclock, payload |-> payload]

\* (START <id> robot (<gdl>) 10 5)
MsgSTART(kcase, id, gdl) == Msg("START", kcase, TRUE, id, "robot", gdl, 10, 5, <<>>)
\* (START incomplete)
MsgSTARTBad == Msg("START", "UPPER", FALSE, "", "", <<>>, NoClock, NoClock, <<>>)
\* (PLAY <id> <payload>), (STOP <id> <payload>)
MsgPLAY(id, payload) == Msg("PLAY", "UPPER", TRUE, id, "", <<>>, NoClock, NoClock, payload)
MsgSTOP(id, payload) == Msg("STOP", "UPPER", TRUE, id, "", <<>>, NoClock, NoClock, payload)
\* (PLAY <id>): no payload, so neither MATCH_PLAY nor MATCH_SPS_MATCHID matches
MsgPLAYBad == Msg("PLAY", "UPPER", FALSE, "", "", <<>>, NoClock, NoClock, <<>>)
\* (INFO), (info), (Info); (info x)
MsgINFO(kcase) == Msg("INFO", kcase, TRUE, "", "", <<>>, NoClock, NoClock, <<>>)
MsgINFOBad == Msg("INFO", "LOWER", FALSE, "", "", <<>>, NoClock, NoClock, <<>>)
\* (ABORT <id>); (ABORT a b)
MsgABORT(kcase, id) == Msg("ABORT", kcase, TRUE, id, "", <<>>, NoClock, NoClock, <<>>)
MsgABORTBad == Msg("ABORT", "UPPER", FALSE, "", "", <<>>, NoClock, NoClock, <<>>)
\* (PREVIEW (<gdl>) 10); (PREVIEW x)
MsgPREVIEW(kcase, gdl) == Msg("PREVIEW", kcase, TRUE, "", "", gdl, 10, NoClock, <<>>)
MsgPREVIEWBad == Msg("PREVIEW", "UPPER", FALSE, "", "", <<>>, NoClock, NoClock, <<>>)
\* (BLAH)
MsgOTHER == Msg("OTHER", "UPPER", FALSE, "", "", <<>>, NoClock, NoClock, <<>>)
\* a GET request; a POST of five bytes or fewer
MsgGET == [MsgINFO("UPPER") EXCEPT !.method = "GET"]
MsgShort == [MsgOTHER EXCEPT !.short = TRUE]

\* GDL texts (the text between the brackets of the START message)
GdlRobot == <<"(", "role", " ", "robot", ")", " ", "(", "other", " ", "gdl", ")">>
GdlTwo == <<"(", "role", " ", "white", ")", " ", "(", "ROLE", " ", "black", ")">>
GdlNoRole == <<"(", "other", " ", "gdl", ")">>
GdlRoles == <<"(", "role", " ", "robot", ")", " ", "(", "roles", " ", "x", ")">>
GdlOnlyRoles == <<"(", "roles", " ", "x", ")">>
GdlSeqHead == <<"(", "role", " ", "robot", ")", " ", "(", "(", "p", ")", " ", "q", ")">>
GdlOpen == <<"(", "role", " ", "robot">>

\* PLAY / STOP payloads
PayNil == <<"NIL">>
PayEmpty == <<"(", ")">>
PayOne == <<"(", "(", "mark", " ", "1", ")", ")">>
PayTwo == <<"(", "noop", " ", "(", "mark", " ", "1", ")", ")">>
PayAtom == <<"noop">>
PayOpen == <<"(", "(", "mark", ")">>
Pay2First == <<"0", " ", "NIL", " ", "NIL">>
Pay2Next == <<"1", " ", "noop", " ", "(", "(", "cell", " ", "1", ")", ")">>

\* The regular expressions, on what a message records of itself.
re_s_START(m) == m.kind = "START"
re_s_PLAY(m) == m.kind = "PLAY"
re_s_STOP(m) == m.kind = "STOP"
re_s_INFO(m) == m.kind = "INFO"
re_s_ABORT(m) == m.kind = "ABORT"
re_s_PREVIEW(m) == m.kind = "PREVIEW"
re_m_START(m) == m.kind = "START" /\ m.wf
re_m_PLAY(m) == m.kind = "PLAY" /\ m.wf
re_m_STOP(m) == m.kind = "STOP" /\ m.wf
re_m_INFO(m) == m.kind = "INFO" /\ m.wf
re_m_ABORT(m) == m.kind = "ABORT" /\ m.wf
re_m_PREVIEW(m) == m.kind = "PREVIEW" /\ m.wf
re_m_SPS_MATCHID(m) == m.kind \in {"START", "PLAY", "STOP"} /\ m.id # ""

\* re_m_GDL_ROLE.match(a): a begins with "role", in any case.
RoleWords == {"role", "ROLE", "Role", "roles", "roleplay"}
re_m_GDL_ROLE(a) == a \in RoleWords

\* ------------------------------------------------------------------------
\* ggp_http_handler.py: Handler, one message at a time
\*
\* self is the Handler object's fields apart from its two queues.  on_INFO
\* and on_PREVIEW tell whether the optional callback was supplied; the
\* callbacks the protocol version requires always are (test_mode off).
\* ------------------------------------------------------------------------
GGP1 == 1
GGP2 == 2

\* Handler.__init__
NewHandler(version, info, preview) ==
    [protocol_version |-> version, on_INFO |-> info, on_PREVIEW |-> preview,
     uppercase |-> TRUE, gdl2_turn |-> 0, matchid |-> None,
     playclock |-> NoClock, startclock |-> NoClock, roles |-> <<>>]

\* What a handle_* method does until it next leaves the handler's code:
\*   return  it returns body                 (_app_normal answers 200)
\*   error   it raises HTTPErrorResponse     (_app_normal answers status)
\*   raise   it raises another exception     (_app_normal answers 500, re-raises)
\*   call    it invokes the user callback cb and goes on at k when cb returns
NoCb == [name |-> "", matchid |-> "", role |-> "", gdl |-> <<>>, clock |-> NoClock,
         actions |-> <<>>, lastaction |-> <<>>, observations |-> <<>>,
         returned |-> FALSE, ret |-> <<>>]
Return(s, body) == [self |-> s, kind |-> "return", status |-> 200, body |-> body,
                    cb |-> NoCb, k |-> ""]
HttpError(s, status) == [self |-> s, kind |-> "error", status |-> status, body |-> <<>>,
                         cb |-> NoCb, k |-> ""]
Exception(s) == [self |-> s, kind |-> "raise", status |-> 500, body |-> <<>>,
                 cb |-> NoCb, k |-> ""]
Call(s, cb, k) == [self |-> s, kind |-> "call", status |-> 0, body |-> <<>>,
                   cb |-> cb, k |-> k]

\* str.upper() and str.lower() of the words the handler answers with
Upper(w) ==
    CASE w \in {"READY", "ready"} -> "READY"
      [] w \in {"DONE", "done"} -> "DONE"
      [] w \in {"ABORTED", "aborted"} -> "ABORTED"
      [] w \in {"AVAILABLE", "available"} -> "AVAILABLE"
      [] w \in {"BUSY", "busy"} -> "BUSY"
      [] w \in {"Resting", "RESTING", "resting"} -> "RESTING"
      [] OTHER -> w
Lower(w) ==
    CASE w \in {"READY", "ready"} -> "ready"
      [] w \in {"DONE", "done"} -> "done"
      [] w \in {"ABORTED", "aborted"} -> "aborted"
      [] w \in {"AVAILABLE", "available"} -> "available"
      [] w \in {"BUSY", "busy"} -> "busy"
      [] w \in {"Resting", "RESTING", "resting"} -> "resting"
      [] OTHER -> w

\* A rendering that ignores the recorded case: the variant C25 is tested
\* against.
response_upper(s, text) == [i \in 1..Len(text) |-> Upper(text[i])]

\* Handler._response
response(s, text) ==
    IF s.uppercase THEN [i \in 1..Len(text) |-> Upper(text[i])]
    ELSE [i \in 1..Len(text) |-> Lower(text[i])]

\* Handler._set_case: the keyword in upper case, in lower case, or neither
set_case(s, m) ==
    IF m.kcase = "UPPER" THEN [s EXCEPT !.uppercase = TRUE]
    ELSE IF m.kcase = "LOWER" THEN [s EXCEPT !.uppercase = FALSE]
    ELSE [s EXCEPT !.uppercase = TRUE]

\* Handler._roles_in_correct_order: val is self._roles as the method leaves it
RECURSIVE RolesOf(_, _)
RolesOf(exps, roles) ==
    IF exps = <<>>
    THEN IF roles = <<>> THEN Raise("ValueError", roles) ELSE Ok(roles)
    ELSE LET pexp == Head(exps) IN
         IF pexp.t = "list" /\ Len(pexp.kids) = 2
         THEN IF pexp.kids[1].t = "list" THEN Raise("TypeError", roles)
              ELSE IF re_m_GDL_ROLE(pexp.kids[1].a)
              THEN RolesOf(Tail(exps), Append(roles, pexp.kids[2]))
              ELSE RolesOf(Tail(exps), roles)
         ELSE RolesOf(Tail(exps), roles)

roles_in_correct_order(gdl) ==
    LET exp == parse_simple_sexp(<<"(">> \o gdl \o <<")">>) IN
    IF ~exp.ok THEN Raise(exp.err, <<>>)
    ELSE IF exp.val.t = "atom" THEN RolesOf(<<>>, <<>>)
    ELSE RolesOf(exp.val.kids, <<>>)

\* The callbacks' arguments (the Timeout clone is left out: see Timeout).
CbSTART(s, m) == [NoCb EXCEPT !.name = "on_START", !.matchid = s.matchid, !.role = m.role,
                              !.gdl = m.gdl, !.clock = s.playclock]
CbABORT == [NoCb EXCEPT !.name = "on_ABORT"]
CbINFO == [NoCb EXCEPT !.name = "on_INFO"]
CbPREVIEW(m) == [NoCb EXCEPT !.name = "on_PREVIEW", !.gdl = m.gdl, !.clock = m.sclock]
CbUpdate(name, actions) == [NoCb EXCEPT !.name = name, !.actions = actions]
CbUpdate2(name, lastaction, observations) ==
    [NoCb EXCEPT !.name = name, !.lastaction = lastaction, !.observations = observations]

\* A pairing of the roles with the actions in reverse order: the variant C15
\* is tested against.
DictZipReversed(roles, actions) ==
    LET n == IF Len(roles) <= Len(actions) THEN Len(roles) ELSE Len(actions) IN
    [ok |-> TRUE, err |-> "",
     val |-> [r \in {roles[i].a : i \in 1..n} |->
                actions[n + 1 - (CHOOSE i \in 1..n : roles[i].a = r)]]]

\* dict(zip(roles, actions)): a later pair replaces an earlier one with the
\* same key, and a key that is a list is unhashable (TypeError).
Min(a, b) == IF a < b THEN a ELSE b
DictZip(roles, actions) ==
    LET n == Min(Len(roles), Len(actions)) IN
    IF \E i \in 1..n : roles[i].t = "list" THEN Raise("TypeError", <<>>)
    ELSE Ok([r \in {roles[i].a : i \in 1..n} |->
                actions[CHOOSE i \in 1..n : /\ roles[i].a = r
                                            /\ \A j \in (i+1)..n : roles[j].a # r]])

\* Handler.handle_START, to the call of on_start
handle_START(s, m) ==
    LET s1 == set_case(s, m)
        s2 == [s1 EXCEPT !.matchid = m.id, !.startclock = m.sclock,
                         !.playclock = m.pclock,
                         !.gdl2_turn = IF s.protocol_version = GGP2 THEN 0 ELSE @]
        r == roles_in_correct_order(m.gdl)
        s3 == [s2 EXCEPT !.roles = r.val]
    IN  IF ~re_m_START(m) THEN HttpError(s1, 400)
        ELSE IF ~r.ok THEN Return([s3 EXCEPT !.matchid = None], <<None>>)
        ELSE Call(s3, CbSTART(s3, m), "START")

\* re.match(r'^\s*\(.*\)\s*$', tmpstr) and re.match(r'^\s*NIL\s*$', tmpstr, re.I)
NonBlank(text) == SelectSeq(text, LAMBDA x : x # " ")
LooksBracketed(text) ==
    LET t == NonBlank(text) IN Len(t) >= 2 /\ t[1] = "(" /\ t[Len(t)] = ")"
LooksNil(text) == LET t == NonBlank(text) IN Len(t) = 1 /\ IsNil(t[1])

\* int() of a run of digits
Digits == {"0", "1", "2"}
IntOf(a) == CASE a = "0" -> 0 [] a = "1" -> 1 [] a = "2" -> 2

\* _parse_gdl2_playstop_component: val is (turn, lastaction, observations)
NoParts == [turn |-> 0, lastaction |-> <<>>, observations |-> <<>>]
LStrip(text) ==
    IF \A i \in 1..Len(text) : text[i] = " " THEN <<>>
    ELSE SubSeq(text, CHOOSE i \in 1..Len(text) :
                        text[i] # " " /\ \A j \in 1..(i-1) : text[j] = " ", Len(text))
parse_gdl2_playstop_component(component) ==
    LET c == LStrip(component)
        matched == Len(c) >= 2 /\ c[1] \in Digits /\ c[2] = " "
        turn == IntOf(c[1])
        exp == parse_simple_sexp(<<"(">> \o SubSeq(c, 3, Len(c)) \o <<")">>)
        last == exp_to_sexp(exp.val.kids[1])
        lastaction == IF last.val = <<"NIL">> THEN <<None>> ELSE last.val
        obs == SexpEach(exp.val.kids[2].kids)
    IN  IF ~matched THEN Raise("HTTPErrorResponse", NoParts)
        ELSE IF ~exp.ok THEN Raise(exp.err, NoParts)
        ELSE IF exp.val.t = "atom" THEN Raise("HTTPErrorResponse", NoParts)
        ELSE IF Len(exp.val.kids) # 2 THEN Raise("HTTPErrorResponse", NoParts)
        ELSE IF ~last.ok THEN Raise(last.err, NoParts)
        ELSE IF turn = 0 /\ lastaction # <<None>> THEN Raise("HTTPErrorResponse", NoParts)
        ELSE IF exp.val.kids[2].t = "atom"
        THEN IF exp.val.kids[2].a # "NIL" THEN Raise("HTTPErrorResponse", NoParts)
             ELSE Ok([turn |-> turn, lastaction |-> lastaction, observations |-> <<>>])
        ELSE IF ~obs.ok THEN Raise(obs.err, NoParts)
        ELSE Ok([turn |-> turn, lastaction |-> lastaction, observations |-> obs.val])

\* A PLAY handler that does not compare the match ids: the variant C23 is
\* tested against.
handle_PLAY_anyid(s, m) ==
    LET actions == parse_actions_sexp(m.payload)
        dict == DictZip(s.roles, actions.val)
    IN  IF ~re_m_PLAY(m) THEN HttpError(s, 400)
        ELSE IF ~LooksBracketed(m.payload) /\ ~LooksNil(m.payload) THEN HttpError(s, 400)
        ELSE IF ~actions.ok THEN Exception(s)
        ELSE IF Len(actions.val) # 0 /\ Len(actions.val) # Len(s.roles)
        THEN HttpError(s, 400)
        ELSE IF ~dict.ok THEN Exception(s)
        ELSE Call(s, CbUpdate("on_PLAY", dict.val), "PLAY")

\* Handler.handle_PLAY, to the call of on_abort, on_play or on_play2
handle_PLAY(s, m) ==
    LET actions == parse_actions_sexp(m.payload)
        dict == DictZip(s.roles, actions.val)
        parts == parse_gdl2_playstop_component(m.payload)
    IN  IF ~re_m_PLAY(m) THEN HttpError(s, 400)
        ELSE IF s.matchid # m.id THEN Call(s, CbABORT, "PLAY_MISMATCH")
        ELSE IF s.protocol_version = GGP1
        THEN IF ~LooksBracketed(m.payload) /\ ~LooksNil(m.payload) THEN HttpError(s, 400)
             ELSE IF ~actions.ok THEN Exception(s)
             ELSE IF Len(actions.val) # 0 /\ Len(actions.val) # Len(s.roles)
             THEN HttpError(s, 400)
             ELSE IF ~dict.ok THEN Exception(s)
             ELSE Call(s, CbUpdate("on_PLAY", dict.val), "PLAY")
        ELSE IF ~parts.ok
             THEN IF parts.err = "HTTPErrorResponse" THEN HttpError(s, 400) ELSE Exception(s)
        ELSE Call(s, CbUpdate2("on_PLAY2", parts.val.lastaction, parts.val.observations),
                  "PLAY2")

\* A STOP handler of the GDL-II variant that does not compare turns: the
\* variant C20 is tested against.
handle_STOP_anyturn(s, m) ==
    LET parts == parse_gdl2_playstop_component(m.payload) IN
    IF ~re_m_STOP(m) THEN HttpError(s, 400)
    ELSE IF s.matchid # m.id THEN Call(s, CbABORT, "STOP_MISMATCH")
    ELSE IF ~parts.ok THEN HttpError(s, 400)
    ELSE Call([s EXCEPT !.gdl2_turn = @ + 1],
              CbUpdate2("on_STOP2", parts.val.lastaction, parts.val.observations),
              "STOP2")

\* A STOP handler that takes an empty action list as PLAY does: the variant
\* C16 is tested against.
handle_STOP_lenient(s, m) ==
    LET actions == parse_actions_sexp(m.payload) IN
    IF ~re_m_STOP(m) THEN HttpError(s, 400)
    ELSE IF s.matchid # m.id THEN Call(s, CbABORT, "STOP_MISMATCH")
    ELSE IF ~actions.ok THEN Exception(s)
    ELSE IF Len(actions.val) # 0 /\ Len(actions.val) # Len(s.roles) THEN HttpError(s, 400)
    ELSE Call(s, [NoCb EXCEPT !.name = "on_STOP"], "STOP")

\* Handler.handle_STOP, to the call of on_abort, on_stop or on_stop2
handle_STOP(s, m) ==
    LET actions == parse_actions_sexp(m.payload)
        dict == DictZip(s.roles, actions.val)
        parts == parse_gdl2_playstop_component(m.payload)
    IN  IF ~re_m_STOP(m) THEN HttpError(s, 400)
        ELSE IF s.matchid # m.id THEN Call(s, CbABORT, "STOP_MISMATCH")
        ELSE IF s.protocol_version = GGP1
        THEN IF ~actions.ok THEN Exception(s)
             ELSE IF Len(actions.val) # Len(s.roles) THEN HttpError(s, 400)
             ELSE IF ~dict.ok THEN Exception(s)
             ELSE Call(s, CbUpdate("on_STOP", dict.val), "STOP")
        ELSE IF ~parts.ok
             THEN IF parts.err = "HTTPErrorResponse" THEN HttpError(s, 400) ELSE Exception(s)
        ELSE IF parts.val.turn # s.gdl2_turn THEN HttpError(s, 400)
        ELSE Call([s EXCEPT !.gdl2_turn = @ + 1],
                  CbUpdate2("on_STOP2", parts.val.lastaction, parts.val.observations),
                  "STOP2")

\* An INFO handler that never looks at the match: the variant C12 is tested
\* against.
handle_INFO_available(s, m) ==
    LET s1 == set_case(s, m) IN
    IF ~re_m_INFO(m) THEN HttpError(s1, 400)
    ELSE IF ~s1.on_INFO THEN Return(s1, response(s1, <<"AVAILABLE">>))
    ELSE Call(s1, CbINFO, "INFO")

\* Handler.handle_INFO, to the first call of on_info
handle_INFO(s, m) ==
    LET s1 == set_case(s, m) IN
    IF ~re_m_INFO(m) THEN HttpError(s1, 400)
    ELSE IF ~s1.on_INFO
    THEN IF s1.matchid # None THEN Return(s1, response(s1, <<"BUSY">>))
         ELSE Return(s1, response(s1, <<"AVAILABLE">>))
    ELSE Call(s1, CbINFO, "INFO")

\* An ABORT handler that does not tell the player: the variant C14 is tested
\* against.
handle_ABORT_silent(s, m) ==
    LET s1 == set_case(s, m) IN
    IF ~re_m_ABORT(m) THEN HttpError(s1, 400)
    ELSE IF s1.matchid # m.id THEN Call(s1, CbABORT, "ABORT_MISMATCH")
    ELSE Return([s1 EXCEPT !.matchid = None], response(s1, <<"ABORTED">>))

\* An ABORT handler that forgets to clear the match: the variant C10 is
\* tested against.
handle_ABORT_keep(s, m) ==
    LET s1 == set_case(s, m) IN
    IF ~re_m_ABORT(m) THEN HttpError(s1, 400)
    ELSE Call(s1, CbABORT, IF s1.matchid # m.id THEN "ABORT_MISMATCH" ELSE "ABORT")

\* Handler.handle_ABORT, to the call of on_abort
handle_ABORT(s, m) ==
    LET s1 == set_case(s, m) IN
    IF ~re_m_ABORT(m) THEN HttpError(s1, 400)
    ELSE IF s1.matchid # m.id THEN Call(s1, CbABORT, "ABORT_MISMATCH")
    ELSE Call([s1 EXCEPT !.matchid = None], CbABORT, "ABORT")

\* A PREVIEW handler that ends the match: the variant C13 is tested against.
handle_PREVIEW_reset(s, m) ==
    LET s1 == set_case(s, m) IN
    IF ~re_m_PREVIEW(m) THEN HttpError(s1, 400)
    ELSE IF s1.on_PREVIEW THEN Call([s1 EXCEPT !.matchid = None], CbPREVIEW(m), "PREVIEW")
    ELSE Return([s1 EXCEPT !.matchid = None], response(s1, <<"DONE">>))

\* Handler.handle_PREVIEW, to the call of on_preview
handle_PREVIEW(s, m) ==
    LET s1 == set_case(s, m) IN
    IF ~re_m_PREVIEW(m) THEN HttpError(s1, 400)
    ELSE IF s1.on_PREVIEW THEN Call(s1, CbPREVIEW(m), "PREVIEW")
    ELSE Return(s1, response(s1, <<"DONE">>))

\* A dispatcher that answers an unknown command as if it were done: the
\* variant C18 is tested against.
handle_POST_lenient(s, m) ==
    IF re_s_START(m) THEN handle_START(s, m)
    ELSE IF re_s_PLAY(m) THEN handle_PLAY(s, m)
    ELSE IF re_s_STOP(m) THEN handle_STOP(s, m)
    ELSE IF re_s_INFO(m) THEN handle_INFO(s, m)
    ELSE IF re_s_ABORT(m) THEN handle_ABORT(s, m)
    ELSE IF re_s_PREVIEW(m) THEN handle_PREVIEW(s, m)
    ELSE Return(s, response(s, <<"DONE">>))

\* Handler._handle_POST
handle_POST(s, m) ==
    IF re_s_START(m) THEN handle_START(s, m)
    ELSE IF re_s_PLAY(m) THEN handle_PLAY(s, m)
    ELSE IF re_s_STOP(m) THEN handle_STOP(s, m)
    ELSE IF re_s_INFO(m) THEN handle_INFO(s, m)
    ELSE IF re_s_ABORT(m) THEN handle_ABORT(s, m)
    ELSE IF re_s_PREVIEW(m) THEN handle_PREVIEW(s, m)
    ELSE HttpError(s, 400)

\* The move on_play returned, as handle_PLAY sends it: wrapped in one more
\* pair of brackets when parse_simple_sexp raises on it.
MoveBody(action) ==
    IF parse_simple_sexp(action).ok THEN action ELSE <<"(">> \o action \o <<")">>

\* A handle_* method from the return of the callback it called at k; ret is
\* what the callback returned.
Resume(s, m, k, ret) ==
    CASE k = "START" -> Return(s, response(s, <<"READY">>))
      [] k = "PLAY" -> Return(s, MoveBody(ret))
      [] k = "PLAY2" ->
            IF parse_gdl2_playstop_component(m.payload).val.turn # s.gdl2_turn
            THEN HttpError(s, 400)
            ELSE Return([s EXCEPT !.gdl2_turn = @ + 1], MoveBody(ret))
      [] k \in {"STOP", "STOP2"} -> Return(s, response(s, <<"DONE">>))
      [] k \in {"PLAY_MISMATCH", "STOP_MISMATCH", "ABORT_MISMATCH"} ->
            HttpError([s EXCEPT !.matchid = None], 400)
      [] k = "ABORT" -> Return(s, response(s, <<"ABORTED">>))
      [] k = "INFO" -> IF ret = <<>> THEN Exception(s) ELSE Call(s, CbINFO, "INFO2")
      [] k = "INFO2" -> Return(s, response(s, ret))
      [] k = "PREVIEW" -> Return(s, response(s, <<"DONE">>))

\* A goodness test that lets every message through: the variant C5 is tested
\* against.
is_good_always(s, m) == TRUE

\* Handler._is_good_connection
is_good_connection(s, m) ==
    LET matchid == IF re_m_SPS_MATCHID(m) THEN m.id
                   ELSE IF re_m_ABORT(m) THEN m.id
                   ELSE None
    IN  IF re_s_PREVIEW(m) THEN TRUE
        ELSE IF re_s_START(m) THEN TRUE
        ELSE IF matchid # None THEN matchid = s.matchid
        ELSE TRUE

\* _get_http_post: the request has a body to hand on
get_http_post(m) == m.method = "POST" /\ ~m.short

\* ------------------------------------------------------------------------
\* Handler.__call__: concurrent connections
\*
\* Each connection is a greenlet running Handler.__call__.  It can be
\* switched out where it waits on its event, inside a user callback, and
\* (a handler may log over a patched socket) before its goodness test; a
\* step of the model runs it from one such place to the next.
\* ------------------------------------------------------------------------
MaxConn == 3
Conns == 1..MaxConn

VARIABLES
    self,             \* the Handler's fields
    all_conn_queue,   \* Queue of the connections' first events
    good_conn_queue,  \* Queue of the good connections' second events
    all_set,          \* the first events that have been set
    good_set,         \* the second events that have been set
    conn,             \* per connection in flight: where it is, what it holds
    last,             \* the connection that returned last, and what it got
    call              \* a call of a constructor or of a function of utils.py

vars == <<self, all_conn_queue, good_conn_queue, all_set, good_set, conn, last, call>>

\* No call of a constructor or library function is under way
\* (prev: the call whose result this call was given as its argument)
NoPrev == [fn |-> "", args |-> <<>>]
NoCall == [fn |-> "", args |-> <<>>, done |-> TRUE, result |-> <<>>, prev |-> NoPrev]

\* A connection:
\*   pc      new, all_wait / all_head (line 217), good_wait / good_head
\*           (line 233), callback (inside a user callback), done (it has
\*           returned or raised: only pc and mygood are kept of it)
\*   msg     its request
\*   mygood  the goodness test's answer, and seen, the matchid it read
\*   k       where its handle_* method goes on when the callback returns
\*   calls   the callbacks invoked for it so far, with their arguments
\*   pre     the Handler's fields when _app_normal began for it
NoMsg == [MsgOTHER EXCEPT !.kind = ""]
NewConn == [pc |-> "new", msg |-> NoMsg, mygood |-> FALSE, k |-> "", calls |-> <<>>,
            seen |-> None, pre |-> NewHandler(GGP1, FALSE, FALSE)]
DoneConn(mygood) == [NewConn EXCEPT !.pc = "done", !.mygood = mygood]

\* What the connection that returned last leaves behind: itself (id, and its
\* fields as above), the status and body it answered, whether __call__ raised,
\* and post, the Handler's fields as it returned.
Returned(c, r, status, body, raised, post) ==
    [id |-> c, msg |-> r.msg, mygood |-> r.mygood, calls |-> r.calls, seen |-> r.seen,
     pre |-> r.pre, status |-> status, body |-> body, raised |-> raised, post |-> post]

Init(Handlers) ==
    /\ self \in Handlers
    /\ all_conn_queue = <<>>
    /\ good_conn_queue = <<>>
    /\ all_set = {}
    /\ good_set = {}
    /\ conn = [c \in Conns |-> NewConn]
    /\ last = Returned(0, NewConn, 0, <<>>, FALSE, self)
    /\ call = NoCall

\* A handler that never waits for its event: the variant C1 is tested against.
NeverWait(queue, c) == FALSE

\* queue.peek() != myevent
NotHead(queue, c) == Head(queue) # c

\* A handler that wakes the newest waiter instead of the oldest: the variant
\* C2 is tested against.
SetNewest(queue, events) ==
    IF queue # <<>> THEN events \cup {queue[Len(queue)]} ELSE events

\* A handler that leaves without waking anyone: the variant C4 is tested
\* against.
SetNobody(queue, events) == events

\* A handler that wakes the waiter behind the head when there is one: the
\* variant C40 is tested against.
SetSecond(queue, events) ==
    IF Len(queue) > 1 THEN events \cup {queue[2]}
    ELSE IF queue # <<>> THEN events \cup {Head(queue)} ELSE events

\* if not queue.empty(): queue.peek().set()
SetHead(queue, events) == IF queue # <<>> THEN events \cup {Head(queue)} ELSE events

\* A rejection that answers 200: the variant C6 is tested against.
app_bad_ok == [status |-> 200, body |-> <<>>]

\* Handler._app_bad
app_bad == [status |-> 400, body |-> <<>>]

\* __call__, lines 199-217: read the request, join the all-connections queue
Arrive(c, m) ==
    /\ conn[c].pc = "new"
    /\ \A d \in Conns : d < c => conn[d].pc # "new"
    /\ IF ~get_http_post(m)
       THEN /\ conn' = [conn EXCEPT ![c] = DoneConn(FALSE)]
            /\ last' = Returned(c, [conn[c] EXCEPT !.msg = m], app_bad.status,
                                app_bad.body, FALSE, self)
            /\ UNCHANGED all_conn_queue
       ELSE LET queue == Append(all_conn_queue, c) IN
            /\ all_conn_queue' = queue
            /\ conn' = [conn EXCEPT ![c].msg = m,
                           ![c].pc = IF NotHead(queue, c) THEN "all_wait" ELSE "all_head"]
            /\ UNCHANGED last
    /\ UNCHANGED <<self, good_conn_queue, all_set, good_set, call>>

\* __call__, lines 217-233: the goodness test, and leaving the first queue
Classify(c) ==
    /\ \/ conn[c].pc = "all_head"
       \/ conn[c].pc = "all_wait" /\ c \in all_set
    /\ LET mygood == is_good_connection(self, conn[c].msg)
           good == IF mygood THEN Append(good_conn_queue, c) ELSE good_conn_queue
           rest == Tail(all_conn_queue)
           me == [conn[c] EXCEPT !.mygood = mygood, !.seen = self.matchid]
       IN  /\ good_conn_queue' = good
           /\ all_conn_queue' = rest
           /\ all_set' = SetHead(rest, all_set) \ {c}
           /\ IF ~mygood
              THEN /\ conn' = [conn EXCEPT ![c] = DoneConn(FALSE)]
                   /\ last' = Returned(c, me, app_bad.status, app_bad.body, FALSE, self)
              ELSE /\ conn' = [conn EXCEPT ![c] =
                          [me EXCEPT !.pc = IF NotHead(good, c) THEN "good_wait"
                                            ELSE "good_head"]]
                   /\ UNCHANGED last
    /\ UNCHANGED <<self, good_set, call>>

\* _app_normal and lines 237-242, from where a handle_* method stands at r;
\* calls are the callbacks the connection has called so far
Proceed(c, r, pre, calls) ==
    /\ self' = r.self
    /\ IF r.kind = "call"
       THEN /\ conn' = [conn EXCEPT ![c].pc = "callback", ![c].k = r.k, ![c].pre = pre,
                                    ![c].calls = Append(calls, r.cb)]
            /\ good_set' = good_set \ {c}
            /\ UNCHANGED <<good_conn_queue, last>>
       ELSE IF r.kind = "raise"
       THEN /\ conn' = [conn EXCEPT ![c] = DoneConn(TRUE)]
            /\ last' = Returned(c, [conn[c] EXCEPT !.pre = pre, !.calls = calls],
                                r.status, r.body, TRUE, r.self)
            /\ good_set' = good_set \ {c}
            /\ UNCHANGED good_conn_queue
       ELSE LET rest == Tail(good_conn_queue) IN
            /\ conn' = [conn EXCEPT ![c] = DoneConn(TRUE)]
            /\ last' = Returned(c, [conn[c] EXCEPT !.pre = pre, !.calls = calls],
                                r.status, r.body, FALSE, r.self)
            /\ good_conn_queue' = rest
            /\ good_set' = SetHead(rest, good_set) \ {c}
    /\ UNCHANGED <<all_conn_queue, all_set, call>>

\* __call__, lines 233-235: at the head of the good queue, handle the message
Handle(c) ==
    /\ \/ conn[c].pc = "good_head"
       \/ conn[c].pc = "good_wait" /\ c \in good_set
    /\ Proceed(c, handle_POST(self, conn[c].msg), self, conn[c].calls)

\* What a callback may return: on_info a word or an empty value, on_play and
\* on_play2 a move, the others nothing.
InfoValues == {<<>>, <<"Resting">>}
Moves == {<<"noop">>, <<"mark", ")">>}
Returns(k) ==
    IF k \in {"INFO", "INFO2"} THEN InfoValues
    ELSE IF k \in {"PLAY", "PLAY2"} THEN Moves
    ELSE {<<>>}

\* The callback called last has returned ret
WithReturn(calls, ret) ==
    [calls EXCEPT ![Len(calls)].returned = TRUE, ![Len(calls)].ret = ret]

\* The user callback returns
CallbackReturn(c, ret) ==
    /\ conn[c].pc = "callback"
    /\ ret \in Returns(conn[c].k)
    /\ Proceed(c, Resume(self, conn[c].msg, conn[c].k, ret), conn[c].pre,
               WithReturn(conn[c].calls, ret))

\* The user callback raises
CallbackRaise(c) ==
    /\ conn[c].pc = "callback"
    /\ Proceed(c, Exception(self), conn[c].pre, conn[c].calls)

\* ------------------------------------------------------------------------
\* Specifications
\* ------------------------------------------------------------------------
Step(Msgs) ==
    \E c \in Conns :
        \/ \E m \in Msgs : Arrive(c, m)
        \/ Classify(c)
        \/ Handle(c)
        \/ \E ret \in InfoValues \cup Moves \cup {<<>>} : CallbackReturn(c, ret)
        \/ CallbackRaise(c)

\* Handlers of the basic protocol: none or both of the optional callbacks
Handlers1 == {NewHandler(GGP1, b, b) : b \in BOOLEAN}
\* Handlers of the GDL-II protocol
Handlers2 == {NewHandler(GGP2, b, b) : b \in BOOLEAN}

\* A match m1 of one role under the basic protocol, with strays
MsgsMatch ==
    {MsgSTART("UPPER", "m1", GdlRobot),
     MsgPLAY("m1", PayNil), MsgPLAY("m2", PayNil), MsgPLAY("m1", PayOpen), MsgPLAYBad,
     MsgSTOP("m1", PayOne), MsgABORT("LOWER", "m1"), MsgABORT("MIXED", "m1"),
     MsgINFO("LOWER"), MsgPREVIEW("UPPER", GdlRobot)}

Next == Step(MsgsMatch)
Spec == Init(Handlers1) /\ [][Next]_vars

\* START messages with game descriptions of every shape, and what tells
\* whether a match is on afterwards
MsgsStart ==
    {MsgSTART("UPPER", "m1", GdlRobot), MsgSTART("LOWER", "m2", GdlTwo),
     MsgSTART("MIXED", "m2", GdlRoles), MsgSTART("UPPER", "m2", GdlOnlyRoles),
     MsgSTART("UPPER", "m2", GdlNoRole), MsgSTART("UPPER", "m2", GdlSeqHead),
     MsgSTART("UPPER", "m2", GdlOpen), MsgSTARTBad,
     MsgINFO("UPPER"), MsgPLAY("m1", PayNil)}

NextStart == Step(MsgsStart)
SpecStart == Init(Handlers1 \cup Handlers2) /\ [][NextStart]_vars

\* The program with callbacks that always return normally.
StepReturns(Msgs) ==
    \E c \in Conns :
        \/ \E m \in Msgs : Arrive(c, m)
        \/ Classify(c)
        \/ Handle(c)
        \/ \E ret \in InfoValues \cup Moves : CallbackReturn(c, ret)

MsgsQueue ==
    {MsgSTART("UPPER", "m1", GdlRobot), MsgPLAY("m1", PayNil), MsgPLAY("m2", PayNil),
     MsgPLAY("m1", PayOpen), MsgPREVIEW("UPPER", GdlRobot)}

NextReturns == StepReturns(MsgsQueue)
SpecReturns == Init(Handlers1) /\ [][NextReturns]_vars

\* The gevent hub runs every greenlet whose event is set; a callback may
\* never return.
NextQueue == Step(MsgsQueue)
SpecAdmission ==
    /\ Init(Handlers1)
    /\ [][NextQueue]_vars
    /\ \A c \in Conns : WF_vars(Classify(c))

\* ------------------------------------------------------------------------
\* Claims
\* ------------------------------------------------------------------------
InAllQueue(c) == conn[c].pc \in {"all_wait", "all_head"}
InGoodQueue(c) == conn[c].pc \in {"good_wait", "good_head"}
Handling(c) == conn[c].pc = "callback"
\* c has begun _app_normal
Began(c) == Handling(c) \/ (conn[c].pc = "done" /\ conn[c].mygood)
\* a connection has returned, and it was classified / it was handled
Classified == last.id # 0 /\ get_http_post(last.msg)
Handled == Classified /\ last.mygood

\* C1: at most one connection is inside full message handling (_app_normal),
\* also while its callback is suspended, and it is the one at the head of the
\* good-connections queue.
C1_MutualExclusion ==
    /\ Cardinality({c \in Conns : Handling(c)}) <= 1
    /\ \A c \in Conns : Handling(c) => good_conn_queue # <<>> /\ Head(good_conn_queue) = c

\* C1 witness: a callback is suspended while another good connection, already
\* through the goodness test, waits behind it.
C1_Witness ==
    \E c, d \in Conns : Handling(c) /\ conn[d].pc = "good_wait" /\ d \notin good_set

\* C2: connections are numbered in the order they joined the all-connections
\* queue; whenever B has begun its full handling, every A that joined before
\* B has finished (returned).
C2_FifoOrder ==
    \A a, b \in Conns : a < b /\ Began(b) => conn[a].pc = "done"

\* C2 witness: the first connection, good and held up in a callback, has
\* returned; the second is being handled and the third still waits.
C2_Witness ==
    /\ last.id = 1 /\ last.mygood /\ last.calls # <<>>
    /\ Handling(2)
    /\ conn[3].pc = "good_wait"

\* C3: no starvation.  Callbacks always return here (SpecReturns).  While a
\* connection is in flight some connection can take its next step, so that
\* each of them returns in the end; once no connection is in flight both
\* queues are empty.
InFlight(c) == conn[c].pc \notin {"new", "done"}
CanStep ==
    \E c \in Conns :
        ENABLED (Classify(c) \/ Handle(c) \/
                 \E ret \in InfoValues \cup Moves : CallbackReturn(c, ret))
C3_NoStarvation ==
    /\ (\E c \in Conns : InFlight(c)) => CanStep
    /\ (\A c \in Conns : ~InFlight(c)) => all_conn_queue = <<>> /\ good_conn_queue = <<>>

\* C4: a connection in the all-connections queue always gets its goodness
\* test, whatever the callbacks of good connections do (they need never
\* return), and a connection found bad returns in that step with a 400.
Tested(c) == InGoodQueue(c) \/ conn[c].pc \in {"callback", "done"}
C4_AdmissionNotStalled ==
    /\ \A c \in Conns : InAllQueue(c) ~> Tested(c)
    /\ [][\A c \in Conns :
            InAllQueue(c) /\ Tested(c)' /\ ~conn'[c].mygood =>
                conn'[c].pc = "done" /\ last'.id = c /\ last'.status = 400]_vars

\* C4 witness: the START of the first connection is inside its callback, which
\* has not returned; the second connection waits in the good queue and the
\* third, a PLAY for another match, was tested against the match the START
\* created and rejected.
C4_Witness ==
    /\ Handling(1) /\ conn[1].msg.kind = "START"
    /\ InGoodQueue(2)
    /\ last.id = 3 /\ ~last.mygood /\ last.seen = "m1" /\ last.status = 400

\* What C5 expects of the goodness test, from the message and the session's
\* matchid alone.
HasMatchId(m) == m.kind \in {"PLAY", "STOP", "ABORT"} /\ m.wf
GoodExpected(m, matchid) ==
    IF m.kind \in {"PREVIEW", "START"} THEN TRUE
    ELSE IF HasMatchId(m) THEN m.id = matchid
    ELSE TRUE

Range(f) == {f[i] : i \in DOMAIN f}

\* C6: a connection found bad returns 400 with an empty body, without a
\* callback and without raising; it is not on the good queue; the session is
\* as it was.
C6_BadRejected ==
    /\ [](Classified /\ ~last.mygood =>
            /\ last.status = 400 /\ last.body = <<>>
            /\ last.calls = <<>> /\ ~last.raised)
    /\ [](\A c \in Range(good_conn_queue) : conn[c].mygood)
    /\ [][\A c \in Conns :
            InAllQueue(c) /\ Tested(c)' /\ ~conn'[c].mygood =>
                /\ self' = self
                /\ good_conn_queue' = good_conn_queue
                /\ last'.id = c /\ last'.post = self]_vars

\* C6 witness: a well-formed PLAY for a match that is not the active one was
\* rejected with 400 while match m1 was, and still is, active.
C6_Witness ==
    /\ Classified /\ ~last.mygood /\ last.msg.kind = "PLAY" /\ last.msg.wf
    /\ last.seen = "m1" /\ self.matchid = "m1" /\ last.status = 400

\* The roles a GDL text declares, as C7 and C8 read it: the second elements,
\* in order, of the top-level pairs whose first element is the word role.
IsRoleWord(e) == e.t = "atom" /\ e.a \in {"role", "ROLE", "Role"}
RECURSIVE DeclaredIn(_)
DeclaredIn(exps) ==
    IF exps = <<>> THEN <<>>
    ELSE LET pexp == Head(exps) IN
         IF pexp.t = "list" /\ Len(pexp.kids) = 2 /\ IsRoleWord(pexp.kids[1])
         THEN <<pexp.kids[2]>> \o DeclaredIn(Tail(exps))
         ELSE DeclaredIn(Tail(exps))
Balanced(gdl) == parse_simple_sexp(<<"(">> \o gdl \o <<")">>).ok
DeclaredRoles(gdl) == DeclaredIn(parse_simple_sexp(<<"(">> \o gdl \o <<")">>).val.kids)

\* a well-formed START was handled, and its callback, if called, returned
StartHandled ==
    /\ Handled /\ last.msg.kind = "START" /\ last.msg.wf /\ Balanced(last.msg.gdl)
    /\ ~last.raised
ReadyIn(kcase) == IF kcase = "LOWER" THEN <<"ready">> ELSE <<"READY">>

\* C7: after a well-formed START whose GDL declares a role, matchid is the
\* message's id, roles are the declared roles in order, the clocks are the
\* message's, the turn counter is 0 under GGP2, on_start was called once with
\* (matchid, role, gdl, playclock), and the answer is 200 READY in the
\* keyword's case.
C7_StartAccepted ==
    StartHandled /\ DeclaredRoles(last.msg.gdl) # <<>> =>
        /\ last.post.matchid = last.msg.id
        /\ last.post.roles = DeclaredRoles(last.msg.gdl)
        /\ last.post.startclock = last.msg.sclock
        /\ last.post.playclock = last.msg.pclock
        /\ last.post.protocol_version = GGP2 => last.post.gdl2_turn = 0
        /\ Len(last.calls) = 1
        /\ last.calls[1].name = "on_START"
        /\ last.calls[1].matchid = last.msg.id
        /\ last.calls[1].role = last.msg.role
        /\ last.calls[1].gdl = last.msg.gdl
        /\ last.calls[1].clock = last.msg.pclock
        /\ last.status = 200
        /\ last.body = ReadyIn(last.msg.kcase)

\* C8: after a well-formed START whose GDL declares no role, matchid is
\* empty, on_start was not called and the answer is not an error.
C8_StartWithoutRoles ==
    StartHandled /\ DeclaredRoles(last.msg.gdl) = <<>> =>
        /\ last.post.matchid = None
        /\ last.calls = <<>>
        /\ last.status = 200

\* a STOP for the active match with a valid payload was handled: on_stop
\* returned and DONE was answered
StopValidated ==
    /\ Handled /\ last.msg.kind = "STOP" /\ last.msg.wf
    /\ last.pre.matchid = last.msg.id
    /\ Len(last.calls) = 1 /\ last.calls[1].name = "on_STOP"
    /\ last.status = 200 /\ last.body \in {<<"DONE">>, <<"done">>}

\* C9: a validated STOP leaves the session idle: matchid is empty.
C9_StopEndsMatch == StopValidated => last.post.matchid = None

\* an ABORT for the active match was handled
AbortHandled ==
    /\ Handled /\ last.msg.kind = "ABORT" /\ last.msg.wf
    /\ last.pre.matchid = last.msg.id
AbortedIn(kcase) == IF kcase = "LOWER" THEN <<"aborted">> ELSE <<"ABORTED">>

\* C10: an ABORT for the active match calls on_abort exactly once and leaves
\* matchid empty; when on_abort returns the answer is 200 with ABORTED, in
\* lower case for a lower-case keyword and upper case otherwise.
C10_AbortActiveMatch ==
    AbortHandled =>
        /\ Len(last.calls) = 1 /\ last.calls[1].name = "on_ABORT"
        /\ last.post.matchid = None
        /\ ~last.raised => last.status = 200 /\ last.body = AbortedIn(last.msg.kcase)

\* C10 witness: (abort m1) was handled for the active match m1 and answered
\* aborted.
C10_Witness ==
    AbortHandled /\ last.msg.id = "m1" /\ last.msg.kcase = "LOWER" /\ last.body = <<"aborted">>

\* a PLAY, STOP or ABORT carrying an id other than the active match's was
\* sent and has been answered
MismatchAnswered ==
    /\ Classified /\ HasMatchId(last.msg)
    /\ last.seen # None /\ last.msg.id # last.seen
    /\ ~last.raised

\* C11: a PLAY, STOP or ABORT whose id differs from the active matchid calls
\* on_abort exactly once, leaves matchid empty and is answered 400.
C11_MismatchAborts ==
    MismatchAnswered =>
        /\ Len(last.calls) = 1 /\ last.calls[1].name = "on_ABORT"
        /\ last.post.matchid = None
        /\ last.status = 400

\* The session, INFO and PREVIEW: a match is started, stopped and aborted
\* while INFO and PREVIEW arrive in either keyword case.
MsgsInfo ==
    {MsgSTART("UPPER", "m1", GdlRobot), MsgSTOP("m1", PayOne), MsgABORT("UPPER", "m1"),
     MsgINFO("UPPER"), MsgINFO("LOWER"),
     MsgPREVIEW("UPPER", GdlTwo), MsgPREVIEW("LOWER", GdlTwo)}
NextInfo == Step(MsgsInfo)
SpecInfo == Init(Handlers1) /\ [][NextInfo]_vars

\* the fields of the session other than the response case
Session(s) == <<s.matchid, s.roles, s.startclock, s.playclock, s.gdl2_turn>>
WordIn(kcase, word) == IF kcase = "LOWER" THEN <<Lower(word)>> ELSE <<Upper(word)>>

\* an INFO was handled by a handler without on_info
InfoDefaultHandled ==
    /\ Handled /\ last.msg.kind = "INFO" /\ last.msg.wf
    /\ ~last.pre.on_INFO

\* C12: without on_info, INFO is answered 200 with BUSY exactly when matchid
\* is set as it is handled and AVAILABLE otherwise, in the keyword's case, and
\* changes nothing of the Handler but the response case.
C12_InfoDefault ==
    InfoDefaultHandled =>
        /\ last.status = 200 /\ ~last.raised /\ last.calls = <<>>
        /\ last.body = WordIn(last.msg.kcase,
                              IF last.pre.matchid # None THEN "BUSY" ELSE "AVAILABLE")
        /\ last.post = [last.pre EXCEPT !.uppercase = (last.msg.kcase # "LOWER")]

\* C12 witness: (info) was answered busy while m1 was the match, and the
\* response case went from upper to lower.
C12_Witness ==
    /\ InfoDefaultHandled /\ last.msg.kcase = "LOWER"
    /\ last.pre.matchid = "m1" /\ last.pre.uppercase
    /\ last.body = <<"busy">>

\* a well-formed PREVIEW was handled, and on_preview, if called, returned
PreviewHandled ==
    /\ Handled /\ last.msg.kind = "PREVIEW" /\ last.msg.wf
    /\ ~last.raised

\* C13: a well-formed PREVIEW is answered 200 DONE whatever the session; with
\* on_preview it calls it once with the GDL text and the preview clock, without
\* it calls nothing; matchid, roles, clocks and turn counter stay as they were.
C13_Preview ==
    PreviewHandled =>
        /\ last.status = 200
        /\ last.body = WordIn(last.msg.kcase, "DONE")
        /\ Session(last.post) = Session(last.pre)
        /\ IF last.pre.on_PREVIEW
           THEN /\ Len(last.calls) = 1
                /\ last.calls[1].name = "on_PREVIEW"
                /\ last.calls[1].gdl = last.msg.gdl
                /\ last.calls[1].clock = last.msg.sclock
           ELSE last.calls = <<>>

\* C13 witness: a PREVIEW handled during match m1 called on_preview and was
\* answered DONE; the match is still m1.
C13_Witness ==
    /\ PreviewHandled /\ last.pre.on_PREVIEW /\ last.pre.matchid = "m1"
    /\ Len(last.calls) = 1 /\ last.post.matchid = "m1" /\ last.body = <<"DONE">>

\* PREVIEWs and one ABORT overlapping in a running match.  The Handler starts
\* as the START of match m1 leaves it; PREVIEWs arrive freely, the ABORT of m1
\* arrives once; callbacks return.
StartedM1(h) == handle_START(h, MsgSTART("UPPER", "m1", GdlRobot)).self
NoAbortYet == self.matchid # None /\ \A d \in Conns : conn[d].msg.kind # "ABORT"
MsgsOverlapPreview == {MsgPREVIEW("UPPER", GdlRobot), MsgPREVIEW("LOWER", GdlRobot)}
MsgsOverlapAbort == {MsgABORT("UPPER", "m1"), MsgABORT("LOWER", "m1")}
NextOverlap ==
    \E c \in Conns :
        \/ \E m \in MsgsOverlapPreview : Arrive(c, m)
        \/ NoAbortYet /\ \E m \in MsgsOverlapAbort : Arrive(c, m)
        \/ Classify(c)
        \/ Handle(c)
        \/ \E ret \in InfoValues \cup Moves : CallbackReturn(c, ret)
SpecOverlap == Init({StartedM1(h) : h \in Handlers1}) /\ [][NextOverlap]_vars

AbortCalls(calls) == Len(SelectSeq(calls, LAMBDA cb : cb.name = "on_ABORT"))

\* C14: with PREVIEWs and the ABORT of the running match in flight together,
\* every connection goes on to its answer; each PREVIEW is answered DONE and
\* calls no on_abort, the ABORT is answered ABORTED with exactly one on_abort
\* call (words compared without their case).
C14_PreviewAbortOverlap ==
    /\ (\E c \in Conns : InFlight(c)) => CanStep
    /\ \A c \in Conns : conn[c].msg.kind = "PREVIEW" => AbortCalls(conn[c].calls) = 0
    /\ last.id # 0 =>
          /\ last.mygood /\ last.status = 200 /\ ~last.raised
          /\ last.msg.kind = "PREVIEW" =>
                last.body \in {<<"DONE">>, <<"done">>} /\ AbortCalls(last.calls) = 0
          /\ last.msg.kind = "ABORT" =>
                last.body \in {<<"ABORTED">>, <<"aborted">>} /\ AbortCalls(last.calls) = 1

\* C14 witness: the ABORT arrived between two PREVIEWs; the first PREVIEW has
\* returned, the ABORT has just been answered aborted after one on_abort call
\* and the second PREVIEW, tested while the match was still on, waits.
C14_Witness ==
    /\ conn[1].pc = "done"
    /\ last.id = 2 /\ last.msg.kind = "ABORT" /\ last.body = <<"aborted">>
    /\ AbortCalls(last.calls) = 1
    /\ InGoodQueue(3) /\ conn[3].msg.kind = "PREVIEW" /\ conn[3].seen = "m1"

\* PLAY and STOP of the basic variant: matches of one and of two roles, action
\* lists of no, one and two actions.
MsgsPlay ==
    {MsgSTART("UPPER", "m1", GdlRobot), MsgSTART("UPPER", "m1", GdlTwo)}
    \cup {MsgPLAY("m1", p) : p \in {PayNil, PayEmpty, PayOne, PayTwo}}
    \cup {MsgSTOP("m1", p) : p \in {PayNil, PayEmpty, PayOne, PayTwo}}
NextPlay == Step(MsgsPlay)
SpecPlay == Init({NewHandler(GGP1, FALSE, FALSE)}) /\ [][NextPlay]_vars

\* The actions of a PLAY or STOP message, and the mapping that gives the i-th
\* of the roles the i-th of the actions.
ActionsOf(m) == parse_actions_sexp(m.payload).val
RoleNames(roles) == {roles[i].a : i \in 1..Len(roles)}
Pairing(roles, actions) ==
    [r \in RoleNames(roles) |-> actions[CHOOSE i \in 1..Len(roles) : roles[i].a = r]]
NoPairing == [r \in {} |-> <<>>]

\* a PLAY (kind "PLAY") or STOP of the basic variant for the active match,
\* with a well-formed action list, was handled without a raise
ListHandled(kind) ==
    /\ Handled /\ last.msg.kind = kind /\ last.msg.wf
    /\ last.pre.protocol_version = GGP1
    /\ last.pre.matchid = last.msg.id
    /\ parse_actions_sexp(last.msg.payload).ok
    /\ ~last.raised

\* C15: a PLAY for the active match with no actions calls on_play with an
\* empty mapping, one with as many actions as roles calls it with the i-th role
\* mapped to the i-th action; both are answered 200 with the move on_play
\* returned (a well-formed one) and leave the match active.  Any other length
\* is answered 400 without a callback.
C15_PlayActions ==
    ListHandled("PLAY") =>
        LET actions == ActionsOf(last.msg)
            roles == last.pre.roles
        IN  IF Len(actions) = 0 \/ Len(actions) = Len(roles)
            THEN /\ Len(last.calls) = 1
                 /\ last.calls[1].name = "on_PLAY"
                 /\ last.calls[1].actions =
                        IF Len(actions) = 0 THEN NoPairing ELSE Pairing(roles, actions)
                 /\ last.status = 200
                 /\ parse_simple_sexp(last.calls[1].ret).ok =>
                        last.body = last.calls[1].ret
                 /\ last.post.matchid = last.msg.id
                 /\ Session(last.post) = Session(last.pre)
            ELSE /\ last.status = 400 /\ last.body = <<>>
                 /\ last.calls = <<>>
                 /\ last.post = last.pre

\* C15 witness: in a match of white and black, (PLAY m1 (noop (mark 1))) gave
\* on_play white's noop and black's (mark 1), and its move noop was answered.
C15_Witness ==
    /\ ListHandled("PLAY") /\ Len(last.pre.roles) = 2
    /\ Len(last.calls) = 1
    /\ last.calls[1].actions =
           [r \in {"white", "black"} |->
               IF r = "white" THEN <<"noop">> ELSE <<"(", "mark", " ", "1", ")">>]
    /\ last.body = <<"noop">>

\* C16: a STOP for the active match with no actions is answered with an
\* error, calls nothing and changes nothing; one with as many actions as
\* roles calls on_stop once with the i-th role mapped to the i-th action and
\* is answered 200 DONE.
C16_StopActions ==
    ListHandled("STOP") =>
        LET actions == ActionsOf(last.msg)
            roles == last.pre.roles
        IN  /\ Len(actions) = 0 =>
                /\ last.status # 200
                /\ last.calls = <<>>
                /\ last.post = last.pre
            /\ Len(actions) # 0 /\ Len(actions) = Len(roles) =>
                /\ Len(last.calls) = 1
                /\ last.calls[1].name = "on_STOP"
                /\ last.calls[1].actions = Pairing(roles, actions)
                /\ last.status = 200
                /\ last.body \in {<<"DONE">>, <<"done">>}

\* C16 witness: (STOP m1 NIL) was answered 400 in a running match.
C16_Witness ==
    /\ ListHandled("STOP") /\ last.msg.payload = PayNil
    /\ last.pre.matchid = "m1" /\ last.status = 400

\* Requests the handler turns down: other methods, short bodies, unknown
\* commands, and commands that fail their grammar, in and out of a match.
MsgsReject ==
    {MsgSTART("UPPER", "m1", GdlRobot), MsgSTOP("m1", PayOne),
     MsgGET, MsgShort, MsgOTHER,
     MsgSTARTBad, MsgPLAYBad, MsgINFOBad, MsgABORTBad, MsgPREVIEWBad}
NextReject == Step(MsgsReject)
SpecReject == Init(Handlers1) /\ [][NextReject]_vars

\* connection c returns from __call__ in this step
Answers(c) == conn[c].pc # "done" /\ conn'[c].pc = "done"

\* C17: a request that is not a POST is answered 405, calls nothing, changes
\* no field of the Handler and joins no queue.
C17_NonPostIs405 ==
    /\ [](last.id # 0 /\ last.msg.method # "POST" =>
            last.status = 405 /\ last.calls = <<>>)
    /\ [][\A c \in Conns :
            Answers(c) /\ last'.msg.method # "POST" =>
                /\ self' = self
                /\ all_conn_queue' = all_conn_queue
                /\ good_conn_queue' = good_conn_queue]_vars

\* C18: a POST that is too short, or that starts with none of the six
\* commands, is answered 400 with an empty body, calls nothing and changes no
\* field of the Handler.
ShortOrUnknown(m) == m.method = "POST" /\ (m.short \/ m.kind = "OTHER")
C18_ShortOrUnknownIs400 ==
    /\ [](last.id # 0 /\ ShortOrUnknown(last.msg) =>
            /\ last.status = 400 /\ last.body = <<>>
            /\ last.calls = <<>> /\ ~last.raised)
    /\ [][\A c \in Conns :
            Answers(c) /\ ShortOrUnknown(last'.msg) => self' = self]_vars

\* C18 witness: (BLAH) was let through as good during match m1 and answered
\* 400.
C18_Witness ==
    /\ Handled /\ last.msg.kind = "OTHER" /\ ~last.msg.short
    /\ last.pre.matchid = "m1" /\ last.status = 400

\* a command that fails its grammar
Malformed(m) ==
    /\ get_http_post(m)
    /\ m.kind \in {"START", "PLAY", "STOP", "INFO", "ABORT", "PREVIEW"}
    /\ ~m.wf

\* C19: a command that fails its grammar is answered 400 with an empty body,
\* calls nothing and changes no field of the Handler, the response case
\* included.
C19_MalformedChangesNothing ==
    /\ [](last.id # 0 /\ Malformed(last.msg) =>
            /\ last.status = 400 /\ last.body = <<>>
            /\ last.calls = <<>> /\ ~last.raised)
    /\ [][\A c \in Conns :
            Answers(c) /\ Malformed(last'.msg) => self' = self]_vars

\* PLAY and STOP of the GDL-II variant, with turn numbers 0 and 1.
MsgsTurn ==
    {MsgSTART("UPPER", "m1", GdlRobot)}
    \cup {MsgPLAY("m1", p) : p \in {Pay2First, Pay2Next}}
    \cup {MsgSTOP("m1", p) : p \in {Pay2First, Pay2Next}}
NextTurn == Step(MsgsTurn)
SpecTurn == Init(Handlers2) /\ [][NextTurn]_vars

\* the turn number a GDL-II payload starts with
TurnOf(m) == IntOf(m.payload[1])

\* a PLAY or STOP of the GDL-II variant for the active match, whose turn is
\* not the session's, was handled without a raise
WrongTurnHandled ==
    /\ Handled /\ last.msg.kind \in {"PLAY", "STOP"} /\ last.msg.wf
    /\ last.pre.protocol_version = GGP2
    /\ last.pre.matchid = last.msg.id
    /\ parse_gdl2_playstop_component(last.msg.payload).ok
    /\ TurnOf(last.msg) # last.pre.gdl2_turn
    /\ ~last.raised

\* C20: under GDL-II a PLAY or STOP for the active match whose turn number is
\* not the session's turn counter is answered 400, and matchid, roles, clocks
\* and turn counter stay as they were.
C20_WrongTurnRejected ==
    WrongTurnHandled =>
        /\ last.status = 400
        /\ Session(last.post) = Session(last.pre)

\* C20 witness: a PLAY of turn 1 was handled at turn 0: on_play2 was called
\* and returned, then the turn was compared and 400 answered.
C20_Witness ==
    /\ WrongTurnHandled /\ last.msg.kind = "PLAY"
    /\ TurnOf(last.msg) = 1 /\ last.pre.gdl2_turn = 0
    /\ Len(last.calls) = 1 /\ last.calls[1].name = "on_PLAY2"
    /\ last.status = 400 /\ last.post.gdl2_turn = 0

\* A GDL-II match m1, and a START m2 whose GDL declares no role.
MsgsCounter ==
    {MsgSTART("UPPER", "m1", GdlRobot), MsgSTART("UPPER", "m2", GdlNoRole),
     MsgPLAY("m1", Pay2First), MsgPLAY("m1", Pay2Next), MsgSTOP("m1", Pay2Next),
     MsgPLAYBad}
NextCounter == Step(MsgsCounter)
SpecCounter == Init({NewHandler(GGP2, FALSE, FALSE)}) /\ [][NextCounter]_vars

\* the connection that returned last was answered READY / had its PLAY or STOP
\* accepted
StartSucceeded ==
    last.msg.kind = "START" /\ last.status = 200 /\ last.body # <<None>>
PlayStopAccepted == last.msg.kind \in {"PLAY", "STOP"} /\ last.status = 200

\* C21: under GDL-II, handling a message leaves the turn counter at 0 when it
\* is a START that succeeded, one higher than before when it is a PLAY or STOP
\* that was accepted, and as it was for every other message (rejected ones
\* and a START that did not succeed included); a message that is not handled
\* changes no field.  The counter is then the number of PLAY and STOP accepted
\* since the last START that succeeded.
C21_TurnCounter ==
    /\ [](Handled /\ last.pre.protocol_version = GGP2 /\ ~last.raised =>
            last.post.gdl2_turn =
                IF StartSucceeded THEN 0
                ELSE IF PlayStopAccepted THEN last.pre.gdl2_turn + 1
                ELSE last.pre.gdl2_turn)
    /\ [][\A c \in Conns : Answers(c) /\ ~conn'[c].mygood => self' = self]_vars

\* C22: whenever no connection is inside message handling, matchid is set
\* exactly when roles is not empty.
C22_MatchIdIffRoles ==
    (\A c \in Conns : ~Handling(c)) => (self.matchid # None <=> self.roles # <<>>)

\* Two matches m1 and m2 of one role, one started over the other or after an
\* ABORT, with the PLAY, STOP and ABORT of both.
MsgsIds ==
    {MsgSTART("UPPER", "m1", GdlRobot), MsgSTART("UPPER", "m2", GdlRobot),
     MsgPLAY("m1", PayNil), MsgPLAY("m2", PayNil), MsgSTOP("m1", PayOne),
     MsgABORT("UPPER", "m1"), MsgABORT("UPPER", "m2")}
NextIds == Step(MsgsIds)
SpecIds == Init({NewHandler(GGP1, FALSE, FALSE)}) /\ [][NextIds]_vars

\* the callbacks that take the moves of a PLAY or STOP
UpdateCallbacks == {"on_PLAY", "on_STOP", "on_PLAY2", "on_STOP2"}
CalledUpdate(calls) == \E i \in 1..Len(calls) : calls[i].name \in UpdateCallbacks

\* C23: a PLAY, STOP or ABORT that was answered 200, or for which on_play,
\* on_stop, on_play2 or on_stop2 was called, carried the id that was the
\* session's matchid when it was handled; while such a callback runs the
\* session's matchid is still the message's id; and a PLAY, STOP or ABORT that
\* fails the goodness test is answered 400 with no callback.
C23_OnlyActiveMatchAccepted ==
    /\ Classified /\ last.msg.kind \in {"PLAY", "STOP", "ABORT"} =>
        /\ last.mygood /\ (last.status = 200 \/ CalledUpdate(last.calls)) =>
                last.msg.id = last.pre.matchid
        /\ ~last.mygood => last.status = 400 /\ last.calls = <<>>
    /\ \A c \in Conns :
            Handling(c) /\ CalledUpdate(conn[c].calls) => conn[c].msg.id = self.matchid

\* C23 witness: a PLAY of m1 passed the goodness test while m1 was on, was
\* handled after (START m2 ...) had replaced the match, and was refused with
\* 400 and no on_play.
C23_Witness ==
    /\ Handled /\ last.msg.kind = "PLAY" /\ last.msg.id = "m1"
    /\ last.seen = "m1" /\ last.pre.matchid = "m2"
    /\ last.status = 400 /\ ~CalledUpdate(last.calls)

\* ------------------------------------------------------------------------
\* Construction
\* ------------------------------------------------------------------------
\* protocol_version=None, and a version that is neither GGP1 nor GGP2
NoVersion == 0
BadVersion == 3

\* Handler.__init__ on keyword arguments a (a callback is given or not): the
\* Handler built, or the exception raised
Handler_init(a) ==
    LET protocol_version ==
            IF a.protocol_version = NoVersion THEN GGP1 ELSE a.protocol_version
        unbuilt == NewHandler(GGP1, FALSE, FALSE)
    IN  IF protocol_version \notin {GGP1, GGP2} THEN Raise("AssertionError", unbuilt)
        ELSE IF /\ ~a.test_mode
                /\ protocol_version = GGP1
                /\ ~(a.on_start /\ a.on_play /\ a.on_stop /\ a.on_abort)
        THEN Raise("ValueError", unbuilt)
        ELSE IF /\ ~a.test_mode
                /\ protocol_version = GGP2
                /\ ~(a.on_start /\ a.on_play2 /\ a.on_stop2 /\ a.on_abort)
        THEN Raise("ValueError", unbuilt)
        ELSE Ok(NewHandler(protocol_version, a.on_info, a.on_preview))

\* SimplePlayer.__init__, to the Handler that RawPlayer.__init__ builds: the
\* player hands on its own four methods as on_play, on_stop, on_play2, on_stop2
SimplePlayer_init(a) ==
    IF ~a.on_select THEN Raise("AssertionError", NewHandler(GGP1, FALSE, FALSE))
    ELSE IF ~(a.on_update \/ a.on_update2)
    THEN Raise("AssertionError", NewHandler(GGP1, FALSE, FALSE))
    ELSE IF a.on_update /\ a.on_update2
    THEN Raise("AssertionError", NewHandler(GGP1, FALSE, FALSE))
    ELSE Handler_init([on_start |-> a.on_start, on_play |-> TRUE, on_stop |-> TRUE,
                       on_play2 |-> TRUE, on_stop2 |-> TRUE, on_abort |-> a.on_clear,
                       on_info |-> a.on_info, on_preview |-> a.on_preview,
                       protocol_version |-> IF a.on_update2 THEN GGP2 ELSE GGP1,
                       test_mode |-> FALSE])

\* The keyword arguments a Handler and a SimplePlayer can be built with
HandlerArgs ==
    [on_start : BOOLEAN, on_play : BOOLEAN, on_stop : BOOLEAN, on_play2 : BOOLEAN,
     on_stop2 : BOOLEAN, on_abort : BOOLEAN, on_info : BOOLEAN, on_preview : BOOLEAN,
     protocol_version : {NoVersion, GGP1, GGP2, BadVersion}, test_mode : BOOLEAN]
PlayerArgs ==
    [on_start : BOOLEAN, on_update : BOOLEAN, on_update2 : BOOLEAN, on_select : BOOLEAN,
     on_clear : BOOLEAN, on_info : BOOLEAN, on_preview : BOOLEAN]

\* A call about to be made
NewCall(fn, args) == [NoCall EXCEPT !.fn = fn, !.args = args, !.done = FALSE]

\* Nothing but the call exists yet
InitCall(Calls) ==
    /\ self = NewHandler(GGP1, FALSE, FALSE)
    /\ all_conn_queue = <<>>
    /\ good_conn_queue = <<>>
    /\ all_set = {}
    /\ good_set = {}
    /\ conn = [c \in Conns |-> NewConn]
    /\ last = Returned(0, NewConn, 0, <<>>, FALSE, self)
    /\ call \in Calls

\* The call of fn returns result (a value or an exception)
Finish(fn, result) ==
    /\ call.fn = fn /\ ~call.done
    /\ call' = [call EXCEPT !.done = TRUE, !.result = result]

\* Handler(...) is built, directly or by a SimplePlayer
Construct ==
    /\ Finish("Handler", Handler_init(call.args))
    /\ self' = IF call'.result.ok THEN call'.result.val ELSE self
    /\ UNCHANGED <<all_conn_queue, good_conn_queue, all_set, good_set, conn, last>>
ConstructPlayer ==
    /\ Finish("SimplePlayer", SimplePlayer_init(call.args))
    /\ self' = IF call'.result.ok THEN call'.result.val ELSE self
    /\ UNCHANGED <<all_conn_queue, good_conn_queue, all_set, good_set, conn, last>>

NextConstruct == Construct \/ ConstructPlayer
SpecConstruct ==
    /\ \/ InitCall({NewCall("Handler", a) : a \in HandlerArgs})
       \/ InitCall({NewCall("SimplePlayer", a) : a \in PlayerArgs})
    /\ [][NextConstruct]_vars

\* C24: outside test mode a Handler is built only when on_start and on_abort
\* are given and exactly one of the pairs (on_play, on_stop) and (on_play2,
\* on_stop2) is given; with both pairs, or with neither, construction raises.
C24_ConstructionValidated ==
    call.fn = "Handler" /\ call.done /\ ~call.args.test_mode =>
        LET a == call.args
            basic == a.on_play /\ a.on_stop
            gdl2 == a.on_play2 /\ a.on_stop2
        IN  /\ call.result.ok => a.on_start /\ a.on_abort /\ (basic # gdl2)
            /\ (basic /\ gdl2) \/ (~basic /\ ~gdl2) => ~call.result.ok

\* ------------------------------------------------------------------------
\* The case of the answers
\* ------------------------------------------------------------------------
\* the same message with its keyword in lower case
LowerCased(m) == [m EXCEPT !.kcase = "LOWER"]

\* A match m1 whose messages come with keywords in upper, lower and mixed case
MsgsCase ==
    {MsgSTART("UPPER", "m1", GdlRobot), MsgSTART("LOWER", "m1", GdlRobot),
     MsgSTART("MIXED", "m1", GdlRobot),
     MsgINFO("LOWER"), MsgINFO("MIXED"), MsgINFOBad,
     MsgABORT("LOWER", "m1"), MsgPREVIEW("LOWER", GdlRobot),
     LowerCased(MsgPLAY("m1", PayNil)), LowerCased(MsgSTOP("m1", PayOne))}
NextCase == Step(MsgsCase)
SpecCase == Init({NewHandler(GGP1, FALSE, FALSE)}) /\ [][NextCase]_vars

\* the words that are rendered in the recorded case
CaseWords == {"READY", "DONE", "ABORTED", "AVAILABLE", "BUSY"}
\* the kinds of message whose handlers record the case, and the case a
\* message's keyword gives (TRUE is upper)
RecordsCase(m) == m.kind \in {"START", "INFO", "ABORT", "PREVIEW"}
CaseOf(m) == m.kcase # "LOWER"
\* connection c starts handling its message in this step
StartsHandling(c) == InGoodQueue(c) /\ ~InGoodQueue(c)'

\* C25: the recorded case is upper until a message is handled; handling a
\* START, INFO, ABORT or PREVIEW records the case of its keyword (upper for
\* an upper-case keyword, lower for a lower-case one, upper for any other),
\* handling a PLAY or STOP leaves the recorded case alone, and nothing else
\* changes it; every READY, DONE, ABORTED, AVAILABLE or BUSY answered is in
\* the case recorded when it is answered.
C25_CaseMirrored ==
    /\ []((\A c \in Conns : ~Began(c)) => self.uppercase)
    /\ [](Handled =>
            /\ last.post.uppercase =
                   IF RecordsCase(last.msg) THEN CaseOf(last.msg)
                   ELSE last.pre.uppercase
            /\ Len(last.body) = 1 /\ Upper(last.body[1]) \in CaseWords =>
                   last.body[1] = IF last.post.uppercase THEN Upper(last.body[1])
                                  ELSE Lower(last.body[1]))
    /\ [][self'.uppercase # self.uppercase =>
            \E c \in Conns : StartsHandling(c) /\ RecordsCase(conn[c].msg)
                             /\ self'.uppercase = CaseOf(conn[c].msg)]_vars

\* C25 witness: with upper case recorded, a stop with a lower-case keyword
\* was answered DONE and left the recorded case alone.
C25_Witness ==
    /\ Handled /\ last.msg.kind = "STOP" /\ last.msg.kcase = "LOWER" /\ ~last.raised
    /\ last.pre.uppercase /\ last.post.uppercase
    /\ last.body = <<"DONE">>

\* ------------------------------------------------------------------------
\* utils.py called on its own
\* ------------------------------------------------------------------------
\* actions_to_sexp on a list of texts (for which hasattr(actions, '__iter__')
\* holds)
actions_to_sexp(actions) ==
    IF actions = <<>> THEN Ok(<<"NIL">>)
    ELSE IF Len(actions) = 1 THEN Ok(actions[1])
    ELSE Ok(<<"(">> \o JoinTexts(actions, <<" ">>) \o <<")">>)

\* Values of nesting depth up to MaxDepth whose lists have up to two
\* elements, over a plain atom, one with a caret and one with a space
MaxDepth == 2
AtomNames == {"a", "a^b", "a b"}
ListsOver(S) == UNION {[1..n -> S] : n \in 0..2}
RECURSIVE Exps(_)
Exps(depth) ==
    IF depth = 0 THEN {Atom(a) : a \in AtomNames}
    ELSE {Atom(a) : a \in AtomNames} \cup {List(ks) : ks \in ListsOver(Exps(depth - 1))}

\* Texts of up to MaxText symbols, no two atoms side by side (they would be
\* one atom)
MaxText == 5
Symbols == {"(", ")", " ", "^", "a"}
Texts ==
    {t \in UNION {[1..n -> Symbols] : n \in 0..MaxText} :
        \A i \in 1..(Len(t) - 1) : ~(t[i] = "a" /\ t[i + 1] = "a")}

\* Lists of up to MaxActions actions, each the text of an action expression
MaxActions == 3
ActionTexts ==
    {<<"noop">>, <<"(", "mark", " ", "1", ")">>, <<"(", "a", " ", "(", "b", ")", ")">>}
ActionLists == UNION {[1..n -> ActionTexts] : n \in 0..MaxActions}

InitUtils ==
    \/ InitCall({NewCall("exp_to_sexp", x) : x \in Exps(MaxDepth)})
    \/ InitCall({NewCall("parse_simple_sexp", t) : t \in Texts})
    \/ InitCall({NewCall("actions_to_sexp", as) : as \in ActionLists})

\* The call of fn returns, and nothing else happens
Returns_(fn, result) ==
    /\ Finish(fn, result)
    /\ UNCHANGED <<self, all_conn_queue, good_conn_queue, all_set, good_set, conn, last>>

\* The text that from returned is given to fn
PassOn(from, fn) ==
    /\ call.fn = from /\ call.done /\ call.result.ok
    /\ call' = [NewCall(fn, call.result.val) EXCEPT
                    !.prev = [fn |-> call.fn, args |-> call.args]]
    /\ UNCHANGED <<self, all_conn_queue, good_conn_queue, all_set, good_set, conn, last>>

NextUtils ==
    \/ Returns_("exp_to_sexp", exp_to_sexp(call.args))
    \/ Returns_("parse_simple_sexp", parse_simple_sexp(call.args))
    \/ Returns_("actions_to_sexp", actions_to_sexp(call.args))
    \/ Returns_("parse_actions_sexp", parse_actions_sexp(call.args))
    \/ PassOn("exp_to_sexp", "parse_simple_sexp")
    \/ PassOn("actions_to_sexp", "parse_actions_sexp")
SpecUtils == InitUtils /\ [][NextUtils]_vars

\* a value all of whose atoms are free of whitespace and brackets
RECURSIVE CleanExp(_)
CleanExp(x) ==
    IF x.t = "atom" THEN ~HasBadChar(x.a)
    ELSE \A i \in 1..Len(x.kids) : CleanExp(x.kids[i])
\* call is a finished call of fn on what the call of from had returned
Reparsed(from, fn) == call.fn = fn /\ call.done /\ call.prev.fn = from

\* C26: for a value x of nested lists (the empty list included) and
\* non-empty atoms without whitespace or brackets, parse_simple_sexp of the
\* text exp_to_sexp(x) returns x.
C26_CodecRoundTrip ==
    Reparsed("exp_to_sexp", "parse_simple_sexp") /\ CleanExp(call.prev.args) =>
        call.result.ok /\ call.result.val = call.prev.args

\* C27: actions_to_sexp of a list of well-formed action expressions is NIL
\* for the empty list, the action itself for a list of one, and the actions
\* joined by spaces inside one pair of brackets otherwise; and
\* parse_actions_sexp of that text returns the list.
C27_ActionListRoundTrip ==
    /\ call.fn = "actions_to_sexp" /\ call.done =>
        /\ call.result.ok
        /\ call.result.val =
              IF call.args = <<>> THEN <<"NIL">>
              ELSE IF Len(call.args) = 1 THEN call.args[1]
              ELSE <<"(">> \o JoinTexts(call.args, <<" ">>) \o <<")">>
    /\ Reparsed("actions_to_sexp", "parse_actions_sexp") =>
        call.result.ok /\ call.result.val = call.prev.args

\* brackets of a text: no closing bracket without an open one before it, and
\* none left open at the end
RECURSIVE Depths(_, _)
Depths(text, d) ==
    IF text = <<>> THEN <<d>>
    ELSE <<d>> \o Depths(Tail(text),
                         IF Head(text) = "(" THEN d + 1
                         ELSE IF Head(text) = ")" THEN d - 1 ELSE d)
ExtraClose(text) == \E i \in 1..(Len(text) + 1) : Depths(text, 0)[i] < 0
LeftOpen(text) == Depths(text, 0)[Len(text) + 1] > 0

\* C28: parse_simple_sexp raises on every text that is empty or all
\* whitespace, that has a closing bracket with no open bracket to match, or
\* that leaves a bracket open at its end; on every other text that is not
\* empty it returns a value.
C28_ParseFailsOnUnbalanced ==
    call.fn = "parse_simple_sexp" /\ call.done /\ call.prev.fn = "" =>
        IF IsBlank(call.args) \/ ExtraClose(call.args) \/ LeftOpen(call.args)
        THEN ~call.result.ok
        ELSE call.result.ok

\* the atoms' texts and the lists' elements joined by one space inside a pair
\* of brackets
RECURSIVE Rendering(_)
Rendering(x) ==
    IF x.t = "atom" THEN AtomText(x.a)
    ELSE <<"(">> \o JoinTexts([i \in 1..Len(x.kids) |-> Rendering(x.kids[i])], <<" ">>)
         \o <<")">>

\* C29: exp_to_sexp raises, and returns no text at all, for every value that
\* holds at some depth an atom with whitespace or a bracket in it; for every
\* other value it returns the rendering with the elements of each list joined
\* by spaces inside brackets.
C29_SerializeRejectsBadAtoms ==
    call.fn = "exp_to_sexp" /\ call.done =>
        IF CleanExp(call.args)
        THEN call.result.ok /\ call.result.val = Rendering(call.args)
        ELSE ~call.result.ok /\ call.result.val = <<>>

\* C29 witness: exp_to_sexp raised on a list whose second element is a list
\* that holds the atom 'a b' behind a good atom.
C29_Witness ==
    /\ call.fn = "exp_to_sexp" /\ call.done
    /\ call.args = List(<<Atom("a"), List(<<Atom("a"), Atom("a b")>>)>>)
    /\ ~call.result.ok /\ call.result.val = <<>>

\* ------------------------------------------------------------------------
\* utils.py: Timeout
\*
\* Times are whole seconds.  In the methods below self is the Timeout object
\* and now is what time.time() returns when the method reads it.
\* ------------------------------------------------------------------------
\* Timeout.__init__
Timeout(timestamp, response_duration) ==
    [decision_time |-> timestamp + response_duration]

\* Timeout.has_expired
has_expired(s, now) == s.decision_time - now <= 0

\* A remaining() that does not clamp: the variant C30 is tested against.
remaining_raw(s, now) == s.decision_time - now

\* Timeout.remaining
remaining(s, now) ==
    LET remainder == s.decision_time - now IN
    IF remainder < 0 THEN 0 ELSE remainder

\* Timeout.extend, Timeout.reduce
extend(s, duration) == [s EXCEPT !.decision_time = @ + duration]
reduce(s, duration) == [s EXCEPT !.decision_time = @ - duration]

\* Arrival timestamps and clocks are 0..MaxTime, extend and reduce take up to
\* MaxTime seconds, and the clock is read between 0 and 2 * MaxTime; decision
\* times are followed while within MaxTime of that range.
MaxTime == 3
Times == 0..MaxTime
Nows == 0..(2 * MaxTime)
Durations == 1..MaxTime
InRange(s) == s.decision_time \in (0 - MaxTime)..(3 * MaxTime)

\* A finished call of fn on args that returned result
Called(fn, args, result) ==
    [NoCall EXCEPT !.fn = fn, !.args = args, !.result = result]

\* A Timeout has been built from an arrival timestamp and a clock
InitTimeout ==
    \E timestamp \in Times, clock \in Times :
        /\ self = Timeout(timestamp, clock)
        /\ call = Called("Timeout", <<timestamp, clock>>, self)
        /\ all_conn_queue = <<>>
        /\ good_conn_queue = <<>>
        /\ all_set = {}
        /\ good_set = {}
        /\ conn = [c \in Conns |-> NewConn]
        /\ last = Returned(0, NewConn, 0, <<>>, FALSE, NewHandler(GGP1, FALSE, FALSE))

Extend(duration) ==
    /\ InRange(extend(self, duration))
    /\ self' = extend(self, duration)
    /\ call' = Called("extend", duration, None)
    /\ UNCHANGED <<all_conn_queue, good_conn_queue, all_set, good_set, conn, last>>
Reduce(duration) ==
    /\ InRange(reduce(self, duration))
    /\ self' = reduce(self, duration)
    /\ call' = Called("reduce", duration, None)
    /\ UNCHANGED <<all_conn_queue, good_conn_queue, all_set, good_set, conn, last>>
Remaining(now) ==
    /\ call' = Called("remaining", now, remaining(self, now))
    /\ UNCHANGED <<self, all_conn_queue, good_conn_queue, all_set, good_set, conn, last>>
HasExpired(now) ==
    /\ call' = Called("has_expired", now, has_expired(self, now))
    /\ UNCHANGED <<self, all_conn_queue, good_conn_queue, all_set, good_set, conn, last>>

NextTimeout ==
    \/ \E duration \in Durations : Extend(duration)
    \/ \E duration \in Durations : Reduce(duration)
    \/ \E now \in Nows : Remaining(now)
    \/ \E now \in Nows : HasExpired(now)
SpecTimeout == InitTimeout /\ [][NextTimeout]_vars

\* C30: the decision instant is the arrival timestamp plus the clock, plus
\* every extension and minus every reduction since; remaining() at any time
\* now is the larger of 0 and the decision instant less now, so never
\* negative; and has_expired() at now is true exactly when remaining() at the
\* same now is 0.
C30_RemainingClamped ==
    /\ [](call.fn = "Timeout" => self.decision_time = call.args[1] + call.args[2])
    /\ [](call.fn = "remaining" =>
            /\ call.result >= 0
            /\ call.result = IF self.decision_time - call.args > 0
                             THEN self.decision_time - call.args ELSE 0)
    /\ [](call.fn = "has_expired" =>
            (call.result <=> remaining(self, call.args) = 0))
    /\ [][/\ call'.fn = "extend" => self'.decision_time = self.decision_time + call'.args
          /\ call'.fn = "reduce" => self'.decision_time = self.decision_time - call'.args
          /\ call'.fn \in {"remaining", "has_expired"} => self' = self]_vars

\* C30 witness: remaining() was called at a time after the decision instant
\* and returned 0.
C30_Witness ==
    /\ call.fn = "remaining" /\ call.result = 0
    /\ self.decision_time - call.args < 0

\* ------------------------------------------------------------------------
\* The Timeout a handle_* method makes and the one its callback gets
\*
\* Here self is the heap of Timeout objects, object 1 being the method's own
\* `timeout`; call.prev names the callback that runs and the object it was
\* handed.
\* ------------------------------------------------------------------------
\* A clone that hands out the object itself: the variant C31 is tested
\* against.
clone_same(heap, ref) == [heap |-> heap, ref |-> ref]

\* Timeout.clone: copy.copy(self), a new object with the same fields
clone(heap, ref) == [heap |-> Append(heap, heap[ref]), ref |-> Len(heap) + 1]

\* the callbacks that are given timeout.clone(); on_preview is given timeout
Cloning == {"on_START", "on_PLAY", "on_STOP", "on_PLAY2", "on_STOP2"}

InitClone ==
    \E timestamp \in Times, clock \in Times :
        /\ self = <<Timeout(timestamp, clock)>>
        /\ call = Called("Timeout", <<timestamp, clock>>, 1)
        /\ all_conn_queue = <<>>
        /\ good_conn_queue = <<>>
        /\ all_set = {}
        /\ good_set = {}
        /\ conn = [c \in Conns |-> NewConn]
        /\ last = Returned(0, NewConn, 0, <<>>, FALSE, NewHandler(GGP1, FALSE, FALSE))

\* the handle_* method calls its callback cb
CallWithClone(cb) ==
    /\ call.fn = "Timeout"
    /\ LET c == clone(self, 1) IN
       /\ self' = c.heap
       /\ call' = [Called("clone", 1, c.ref) EXCEPT !.prev = [fn |-> cb, args |-> c.ref]]
    /\ UNCHANGED <<all_conn_queue, good_conn_queue, all_set, good_set, conn, last>>
CallWithTimeout ==
    /\ call.fn = "Timeout"
    /\ call' = [Called("on_PREVIEW", 1, None) EXCEPT
                    !.prev = [fn |-> "on_PREVIEW", args |-> 1]]
    /\ UNCHANGED <<self, all_conn_queue, good_conn_queue, all_set, good_set, conn, last>>

\* the callback extends or reduces the Timeout it was handed
CallbackExtend(duration) ==
    /\ call.prev.fn # "" /\ call.fn # "remaining"
    /\ InRange(extend(self[call.prev.args], duration))
    /\ self' = [self EXCEPT ![call.prev.args] = extend(@, duration)]
    /\ call' = [Called("extend", duration, None) EXCEPT !.prev = call.prev]
    /\ UNCHANGED <<all_conn_queue, good_conn_queue, all_set, good_set, conn, last>>
CallbackReduce(duration) ==
    /\ call.prev.fn # "" /\ call.fn # "remaining"
    /\ InRange(reduce(self[call.prev.args], duration))
    /\ self' = [self EXCEPT ![call.prev.args] = reduce(@, duration)]
    /\ call' = [Called("reduce", duration, None) EXCEPT !.prev = call.prev]
    /\ UNCHANGED <<all_conn_queue, good_conn_queue, all_set, good_set, conn, last>>

\* the callback has returned: remaining = timeout.remaining(), for the log
LatenessLog(now) ==
    /\ call.prev.fn \in Cloning /\ call.fn # "remaining"
    /\ call' = [Called("remaining", now, remaining(self[1], now)) EXCEPT !.prev = call.prev]
    /\ UNCHANGED <<self, all_conn_queue, good_conn_queue, all_set, good_set, conn, last>>

NextClone ==
    \/ \E cb \in Cloning : CallWithClone(cb)
    \/ CallWithTimeout
    \/ \E duration \in Durations : CallbackExtend(duration)
    \/ \E duration \in Durations : CallbackReduce(duration)
    \/ \E now \in Nows : LatenessLog(now)
SpecClone == InitClone /\ [][NextClone]_vars

\* C31: the Timeout given to on_start, on_play, on_stop, on_play2 or on_stop2
\* is another object than the method's own, so whatever the callback extends
\* or reduces, the method's own decision time stays what it was, and the
\* remaining time logged after the callback is counted from it.
C31_CloneIndependent ==
    /\ [](call.prev.fn \in Cloning => call.prev.args # 1)
    /\ [][call'.prev.fn \in Cloning => self'[1] = self[1]]_vars
    /\ [](call.fn = "remaining" =>
            call.result = remaining(self[1], call.args))

\* C31 witness: the callback had extended its clone beyond the method's own
\* decision time before the remaining time was read for the log.
C31_Witness ==
    /\ call.fn = "remaining" /\ call.prev.fn = "on_PLAY"
    /\ self[2].decision_time > self[1].decision_time

\* ------------------------------------------------------------------------
\* Faults inside _app_normal
\* ------------------------------------------------------------------------
\* the callback the returned connection called last
LastCall == last.calls[Len(last.calls)]

\* the user callback called last raised
CallbackFault == last.id # 0 /\ last.calls # <<>> /\ ~LastCall.returned
\* on_info returned an empty value
EmptyInfoFault ==
    /\ last.id # 0 /\ last.calls # <<>>
    /\ LastCall.name = "on_INFO" /\ LastCall.returned /\ LastCall.ret = <<>>

\* C32: when a user callback raises, or on_info returns an empty value, the
\* connection is answered 500 and __call__ raises; a 500 is never answered
\* without raising, and a raise never comes with another status.
C32_FaultIs500 ==
    /\ CallbackFault \/ EmptyInfoFault => last.status = 500 /\ last.raised
    /\ last.id # 0 => (last.raised <=> last.status = 500)

\* c can begin _app_normal: it is past the wait of line 233
CanHandle(c) ==
    \/ conn[c].pc = "good_head"
    \/ conn[c].pc = "good_wait" /\ c \in good_set

\* the head of the good queue, if there is one, can begin _app_normal
HeadCanHandle == good_conn_queue # <<>> => CanHandle(Head(good_conn_queue))

\* C33: a good connection that ends with a 500 and a raise leaves the good
\* queue as it returns, and the head of what remains of the queue is let
\* past its wait; so while a connection waits in the good queue, one is
\* inside _app_normal or one can begin it.
C33_FaultReleasesQueue ==
    /\ [][\A c \in Conns :
            Answers(c) /\ last'.id = c /\ last'.raised =>
                /\ c \notin Range(good_conn_queue')
                /\ HeadCanHandle']_vars
    /\ []((\E c \in Conns : InGoodQueue(c)) =>
            \E d \in Conns : Handling(d) \/ CanHandle(d))

\* the connection that joined the good queue last
Newest(queue) == queue[Len(queue)]

\* the good connection that arrived last before the one now tested is a
\* well-formed START for match id that has not returned: it is inside its
\* callback, or waits in the good queue behind a connection that is inside
\* its callback
StartAhead(id) ==
    /\ good_conn_queue # <<>>
    /\ LET d == Newest(good_conn_queue) IN
       /\ conn[d].msg.kind = "START" /\ conn[d].msg.wf /\ conn[d].msg.id = id
       /\ DeclaredRoles(conn[d].msg.gdl) # <<>>
       /\ \/ Handling(d)
          \/ conn[d].pc = "good_wait" /\ \E e \in Conns : Handling(e)

\* C34: a well-formed PLAY, STOP or ABORT for match m that is tested while
\* the START for m, the last good message before it, still waits or runs is
\* found good.
C34_ClassifiedInArrivalOrder ==
    [][\A c \in Conns :
        /\ InAllQueue(c) /\ Tested(c)'
        /\ HasMatchId(conn[c].msg)
        /\ StartAhead(conn[c].msg.id)
        => conn'[c].mygood]_vars

\* C35: under GDL-II, on_play2 and on_stop2 are running only for a message
\* whose turn number is the turn counter the session had as its handling
\* began, and a PLAY or STOP answered for a wrong turn called nothing.
C35_TurnCheckedBeforeCallback ==
    /\ \A c \in Conns :
            Handling(c) /\ conn[c].k \in {"PLAY2", "STOP2"} =>
                TurnOf(conn[c].msg) = conn[c].pre.gdl2_turn
    /\ WrongTurnHandled => last.calls = <<>>

\* a PLAY or STOP for the active match was handled under the basic protocol
\* and its payload is no list of actions: parse_actions_sexp raises on it
BadPayloadHandled ==
    /\ Handled /\ last.msg.kind \in {"PLAY", "STOP"} /\ last.msg.wf
    /\ last.pre.protocol_version = GGP1
    /\ last.pre.matchid = last.msg.id
    /\ ~parse_actions_sexp(last.msg.payload).ok

\* C36: a PLAY or STOP for the active match whose payload is no well-formed
\* action list is answered 400 without a raise, calls nothing and leaves
\* matchid, roles, clocks and turn counter as they were.
C36_BadPayloadIs400 ==
    BadPayloadHandled =>
        /\ last.status = 400 /\ ~last.raised
        /\ last.calls = <<>>
        /\ Session(last.post) = Session(last.pre)

\* a text that is one s-expression: its brackets match and it has one term
\* outside all brackets, an atom or a bracketed list
TopTerms(text) == {i \in 1..Len(text) : Depths(text, 0)[i] = 0 /\ text[i] # " "}
SingleSexp(text) ==
    ~ExtraClose(text) /\ ~LeftOpen(text) /\ Cardinality(TopTerms(text)) = 1

\* a PLAY was handled under the basic protocol and on_play returned a move
MoveReturned ==
    /\ Handled /\ last.msg.kind = "PLAY" /\ last.calls # <<>>
    /\ LastCall.name = "on_PLAY" /\ LastCall.returned

\* C37: the move on_play returns is answered 200 without a raise, verbatim
\* when it is one well-formed s-expression and inside one more pair of
\* brackets when it is not; the body answered is one well-formed
\* s-expression either way, and the match stays on.
C37_MoveRecovery ==
    MoveReturned =>
        /\ last.status = 200 /\ ~last.raised
        /\ last.body = IF SingleSexp(LastCall.ret) THEN LastCall.ret
                       ELSE <<"(">> \o LastCall.ret \o <<")">>
        /\ SingleSexp(last.body)
        /\ last.post.matchid = last.msg.id /\ last.post.roles # <<>>

\* ------------------------------------------------------------------------
\* Calls of Handler._roles_in_correct_order on game descriptions
\* ------------------------------------------------------------------------
\* top-level terms of a game description: role declarations in two cases,
\* a list whose first word begins with role, a list that begins with a list,
\* a rule, lists of one and of three elements, and a bare word
GdlTerms ==
    {<<"(", "role", " ", "robot", ")">>, <<"(", "ROLE", " ", "black", ")">>,
     <<"(", "roles", " ", "x", ")">>, <<"(", "(", "p", ")", " ", "q", ")">>,
     <<"(", "other", " ", "gdl", ")">>, <<"(", "role", ")">>,
     <<"(", "role", " ", "a", " ", "b", ")">>, <<"role">>}
MaxTerms == 2
GdlTexts ==
    {JoinTexts(terms, <<" ">>) : terms \in UNION {[1..n -> GdlTerms] : n \in 0..MaxTerms}}

InitRoles == InitCall({NewCall("_roles_in_correct_order", gdl) : gdl \in GdlTexts})

\* self._roles_in_correct_order(gdl) returns or raises; self._roles is what
\* it had collected by then
ExtractRoles ==
    /\ Finish("_roles_in_correct_order", roles_in_correct_order(call.args))
    /\ self' = [self EXCEPT !.roles = call'.result.val]
    /\ UNCHANGED <<all_conn_queue, good_conn_queue, all_set, good_set, conn, last>>

NextRoles == ExtractRoles
SpecRoles == InitRoles /\ [][NextRoles]_vars

\* C38: the roles extracted from a game description are the second elements,
\* in order, of its top-level lists of two elements whose first element is
\* the word role in any case; other lists add nothing and make nothing fail,
\* and the extraction raises exactly when there is no such list.
C38_RoleExtraction ==
    call.fn = "_roles_in_correct_order" /\ call.done =>
        /\ self.roles = DeclaredRoles(call.args)
        /\ call.result.ok <=> DeclaredRoles(call.args) # <<>>

\* a well-formed START was handled from whose game description
\* _roles_in_correct_order collects no role
RolelessStartHandled ==
    /\ Handled /\ last.msg.kind = "START" /\ last.msg.wf
    /\ Balanced(last.msg.gdl)
    /\ roles_in_correct_order(last.msg.gdl).val = <<>>

\* C39: a well-formed START whose game description yields no role leaves
\* matchid, roles, start clock and play clock as they were before it, so a
\* match that was on is still on.
C39_RolelessStartNoEffect ==
    RolelessStartHandled =>
        /\ last.post.matchid = last.pre.matchid
        /\ last.post.roles = last.pre.roles
        /\ last.post.startclock = last.pre.startclock
        /\ last.post.playclock = last.pre.playclock

\* c leaves the all-connections queue (line 226) / the good-connections
\* queue (line 238) in this step
LeavesAll(c) == InAllQueue(c) /\ ~InAllQueue(c)'
LeavesGood(c) == (InGoodQueue(c) \/ Handling(c)) /\ conn'[c].pc = "done" /\ ~last'.raised

\* no token is twice in the queue
NoDuplicates(queue) ==
    \A i, j \in 1..Len(queue) : queue[i] = queue[j] => i = j
\* the events set in this step are the new head's at most
SetsOnlyHead(queue, before, after) ==
    after \ before \subseteq (IF queue = <<>> THEN {} ELSE {Head(queue)})

\* C40: a connection that takes a token off the all-connections or the
\* good-connections queue is at the head of it and takes off its own token;
\* a token is put on a queue only by its own connection, once, and never
\* comes back; an event is set only for the token that has become the head.
C40_QueueOwnership ==
    /\ [][\A c \in Conns :
            /\ LeavesAll(c) =>
                    Head(all_conn_queue) = c /\ all_conn_queue' = Tail(all_conn_queue)
            /\ LeavesGood(c) =>
                    Head(good_conn_queue) = c /\ good_conn_queue' = Tail(good_conn_queue)]_vars
    /\ [][/\ all_conn_queue' # all_conn_queue =>
                \E c \in Conns :
                    \/ LeavesAll(c)
                    \/ conn[c].pc = "new" /\ all_conn_queue' = Append(all_conn_queue, c)
          /\ good_conn_queue' # good_conn_queue =>
                \E c \in Conns :
                    \/ LeavesGood(c)
                    \/ LeavesAll(c) /\ good_conn_queue' = Append(good_conn_queue, c)]_vars
    /\ [](/\ NoDuplicates(all_conn_queue) /\ NoDuplicates(good_conn_queue)
          /\ \A c \in Conns :
                /\ c \in Range(all_conn_queue) <=> InAllQueue(c)
                /\ InGoodQueue(c) \/ Handling(c) => c \in Range(good_conn_queue)
                /\ c \in Range(good_conn_queue) => conn[c].pc \notin {"new", "all_wait", "all_head"})
    /\ [][/\ SetsOnlyHead(all_conn_queue', all_set, all_set')
          /\ SetsOnlyHead(good_conn_queue', good_set, good_set')]_vars

\* C40 witness: the second connection has taken its token off both queues
\* and returned, and the third, now the head of the good queue, had its
\* event set while it waited.
C40_Witness ==
    /\ last.id = 2 /\ last.mygood /\ ~last.raised
    /\ good_conn_queue = <<3>> /\ conn[3].pc = "good_wait" /\ 3 \in good_set

=============================================================================
